---- MODULE Spec2Model ----
(***************************************************************************)
(* Payjoin receiver (chaincase-app/payjoin).                               *)
(*                                                                         *)
(*  Spec       the v2 receiver typestate pipeline of payjoin/src/receive/  *)
(*             v2.rs: polling a session (Enrolled::process_res), the       *)
(*             consuming checks, finalization, the response upload         *)
(*             request (PayjoinProposal::extract_v2_req), and Clone.       *)
(*  SpecMulti  the same pipeline next to the multiparty builder and        *)
(*             pipeline of payjoin/src/receive/multiparty/mod.rs.          *)
(*                                                                         *)
(* Every typestate struct is an entry of insts.  A method that takes       *)
(* `self` by value moves the struct: the entry stops being live.  Clone    *)
(* (every state derives it) makes a new entry.                             *)
(***************************************************************************)
EXTENDS Integers, Sequences, FiniteSets, TLC

\* ------------------------------------------------------------ bounds
MaxPolls == 1       \* Spec: directory responses processed by process_res
MaxClones == 1      \* Spec: uses of Clone on a typestate struct
MaxContrib == 1     \* receiver inputs contributed to one proposal
MaxProposals == 2   \* SpecMulti: directory responses processed by process_res
MaxBuilds == 1      \* SpecMulti: calls of UncheckedProposalBuilder::build
MaxSessionOps == 4  \* SpecSession: polls, saves and loads of the session
MaxCalls == 3       \* SpecSeen: calls of insert_input_seen_before
MaxRuns == 3        \* SpecCli: payjoin-cli processes started
MaxSessions == 2    \* SpecCli: sessions enrolled by `receive`
MaxCliPolls == 2    \* SpecCli: turns of the long-poll loop in one run
MaxTicks == 1       \* SpecCli: hours that pass
MaxThreads == 2     \* SpecRace: threads calling insert_input_seen_before at once
MaxOutputs == 2     \* SpecUtxo: outputs of a previous transaction
MaxCount == 2       \* SpecPsbt: inputs and outputs of a PSBT and of its transaction
MaxFinalized == 2   \* SpecFinalized: calls of FinalizedProposal::add
MaxRebuilds == 2    \* SpecBuilder: calls of UncheckedProposalBuilder::build
MaxRepolls == 2     \* SpecPolling: polls of one Enrolled session

\* ------------------------------------------------------------ options
None == <<>>
Some(x) == <<x>>
IsSome(o) == Len(o) = 1
Unwrap(o) == o[1]

SeqToSet(q) == {q[k] : k \in DOMAIN q}

\* ------------------------------------------------------------ keys
\* secp256k1, symbolically: a secret key is a number, its public key
\* another number, ECDH of (pub(a), b) and (pub(b), a) the same secret.
PublicKey(sk) == 100 + sk
SecretOf(pk) == pk - 100
SharedSecret(pk, sk) == {SecretOf(pk), sk}

SessionKeys == {1}          \* long-term receiver keys s
SenderKeys == {2, 3}        \* sender ephemeral keys e
ReplyKeys == {4}            \* receiver ephemeral keys of encrypt_message_b

\* ------------------------------------------------------------ wallet, PSBTs
\* Scripts 1 and 2 belong to senders, 3 and 4 to the receiver's wallet.
WalletScripts == {3, 4}
IsMine(spk) == spk \in WalletScripts
ScriptType(spk) == IF spk = 2 THEN "P2pkh" ELSE "P2wpkh"

In(txid, vout, spk) == [op |-> <<txid, vout>>, spk |-> spk]
MkPsbt(ins, outs) == [ins |-> ins, outs |-> outs]

PsbtGood  == MkPsbt(<<In(1, 0, 1)>>, <<1, 3>>)
PsbtOwned == MkPsbt(<<In(2, 0, 3)>>, <<1, 3>>)
PsbtMixed == MkPsbt(<<In(1, 0, 1), In(1, 1, 2)>>, <<1, 3>>)
PsbtNoPay == MkPsbt(<<In(1, 1, 1)>>, <<1>>)
PsbtOther == MkPsbt(<<In(4, 0, 1)>>, <<1, 4>>)
PsbtLegacy == MkPsbt(<<In(3, 0, 2)>>, <<2, 3>>)
OriginalPsbts == {PsbtGood, PsbtOwned, PsbtMixed, PsbtNoPay}

ReceiverInput == In(9, 0, 4)
SubstituteScript == 4

\* ------------------------------------------------------------ results
Ok(v) == [ok |-> TRUE, v |-> v, err |-> ""]
Err(e) == [ok |-> FALSE, v |-> <<>>, err |-> e]

\* ------------------------------------------------------------ HPKE payload
PADDED_MESSAGE_BYTES == 7168
HpkeHeaderBytes == 45       \* 33-byte compressed pubkey, 12-byte nonce
PubkeyBytes == 33           \* the compressed pubkey at the head of a message
TagBytes == 16              \* the Poly1305 tag that follows the ciphertext

\* A byte string is its length and what it holds.
Bytes(len, data) == [len |-> len, data |-> data]

\* pad letting one byte too many through
pad_off_by_one(msg) ==
    IF msg.len > PADDED_MESSAGE_BYTES + 1 THEN Err("PayloadTooLarge")
    ELSE Ok(Bytes(IF msg.len > PADDED_MESSAGE_BYTES THEN msg.len ELSE PADDED_MESSAGE_BYTES,
                  msg.data))

pad(msg) ==
    IF msg.len > PADDED_MESSAGE_BYTES THEN Err("PayloadTooLarge")
    ELSE Ok(Bytes(PADDED_MESSAGE_BYTES, msg.data))

\* [pubkey | nonce | ciphertext and tag]; the ciphertext opens only under the
\* key and the associated data it was sealed with.
Sealed(e_pub, nonce, key, pt) ==
    [len |-> HpkeHeaderBytes + pt.len + TagBytes, e |-> e_pub, nonce |-> nonce,
     ct |-> [key |-> key, aad |-> e_pub, pt |-> pt]]

encrypt_message_a(raw_msg, e_sec, s_pub, nonce) ==
    LET e_pub == PublicKey(e_sec)
        es == SharedSecret(s_pub, e_sec)
        msg == pad(raw_msg)
    IN  IF ~msg.ok THEN msg ELSE Ok(Sealed(e_pub, nonce, es, msg.v))

\* PublicKey::from_slice: the bytes are a point of the curve or not
IsPublicKey(bytes) == bytes > 100

\* decrypt_message_a looking at the length before anything else
decrypt_message_a_length_first(message_a, s) ==
    IF message_a.len < HpkeHeaderBytes THEN Err("PayloadTooShort")
    ELSE LET e == message_a.e
             es == SharedSecret(e, s)
         IN  IF message_a.ct.key = es /\ message_a.ct.aad = e
             THEN Ok([buffer |-> message_a.ct.pt, e |-> e])
             ELSE Err("ChaCha20Poly1305")

decrypt_message_a(message_a, s) ==
    IF message_a.len < PubkeyBytes THEN Err("PayloadTooShort")
    ELSE IF ~IsPublicKey(message_a.e) THEN Err("Secp256k1")
    ELSE IF message_a.len < HpkeHeaderBytes THEN Err("PayloadTooShort")
    ELSE LET e == message_a.e
             es == SharedSecret(e, s)
         IN  IF message_a.ct.key = es /\ message_a.ct.aad = e
             THEN Ok([buffer |-> message_a.ct.pt, e |-> e])
             ELSE Err("ChaCha20Poly1305")

encrypt_message_b(raw_msg, re_pub, e_sec) ==
    LET e_pub == PublicKey(e_sec)
        ee == SharedSecret(re_pub, e_sec)
        msg == pad(raw_msg)
    IN  IF ~msg.ok THEN msg ELSE Ok(Sealed(e_pub, 0, ee, msg.v))

\* decrypt_message_b cutting the padding off
decrypt_message_b_trimming(message_b, e) ==
    IF message_b.len < HpkeHeaderBytes THEN Err("PayloadTooShort")
    ELSE IF message_b.ct.key = SharedSecret(message_b.e, e)
    THEN Ok(Bytes(message_b.ct.pt.len - 1, message_b.ct.pt.data))
    ELSE Err("ChaCha20Poly1305")

decrypt_message_b(message_b, e) ==
    IF message_b.len < PubkeyBytes THEN Err("PayloadTooShort")
    ELSE IF ~IsPublicKey(message_b.e) THEN Err("Secp256k1")
    ELSE IF message_b.len < HpkeHeaderBytes THEN Err("PayloadTooShort")
    ELSE LET re == message_b.e
             ee == SharedSecret(re, e)
         IN  IF message_b.ct.key = ee /\ message_b.ct.aad = re
             THEN Ok(message_b.ct.pt)
             ELSE Err("ChaCha20Poly1305")

\* ------------------------------------------------------------ OHTTP
ohttp_encapsulate(ohttp_config, method, target_resource, body) ==
    [ohttp_config |-> ohttp_config, method |-> method,
     target |-> target_resource, content |-> body]

\* ------------------------------------------------------------ sessions
\* url::Url: the normalized text it holds
Url(str) == [serialization |-> str]
UrlStrings == {"https://relay/", "https://proxy/"}
Url_parse(str) == IF str \in UrlStrings THEN Ok(Url(str)) ELSE Err("UrlParse")
Url_to_string(url) == url.serialization
RelayUrl == Url("https://relay/")
ProxyUrl == Url("https://proxy/")
OhttpConfig == <<1, 2, 3>>

Enrolled(s) ==
    [relay_url |-> RelayUrl, ohttp_config |-> OhttpConfig,
     ohttp_proxy |-> ProxyUrl, s |-> s]

V2Context(session, e) ==
    [relay_url |-> session.relay_url, ohttp_config |-> session.ohttp_config,
     ohttp_proxy |-> session.ohttp_proxy, s |-> session.s, e |-> e]

\* PublicKey::serialize: the 33-byte compressed encoding
PublicKey_serialize(pubkey) == [len |-> 33, point |-> pubkey]
\* base64::encode_config(bytes, Config::new(character_set, padded)): the text is
\* fixed by the bytes, the alphabet and whether it is padded
base64_encode_config(bytes, character_set, padded) ==
    [character_set |-> character_set, bytes |-> bytes,
     len |-> IF padded THEN 4 * ((bytes.len + 2) \div 3) ELSE (4 * bytes.len + 2) \div 3]

subdirectory(pubkey) ==
    LET pubkey_bytes == PublicKey_serialize(pubkey)
    IN  base64_encode_config(pubkey_bytes, "UrlSafe", FALSE)

Enroller_subdirectory(enroller) ==
    LET pubkey == PublicKey_serialize(PublicKey(enroller.s))
    IN  base64_encode_config(pubkey, "UrlSafe", FALSE)

\* fallback_target with the standard alphabet
Enrolled_fallback_target_standard(session) ==
    <<Url_to_string(session.relay_url),
      base64_encode_config(PublicKey_serialize(PublicKey(session.s)), "Standard", FALSE)>>

Enrolled_fallback_target(session) ==
    LET pubkey == PublicKey_serialize(PublicKey(session.s))
        pubkey_base64 == base64_encode_config(pubkey, "UrlSafe", FALSE)
    IN  <<Url_to_string(session.relay_url), pubkey_base64>>

\* Enroller::extract_req
Enroller_extract_req(enroller) ==
    [url |-> enroller.ohttp_proxy,
     body |-> ohttp_encapsulate(enroller.ohttp_config, "POST",
                                Url_to_string(enroller.relay_url),
                                Enroller_subdirectory(enroller))]

\* Enrolled::extract_req, with fallback_req_body
Enrolled_extract_req(session) ==
    [url |-> session.ohttp_proxy,
     body |-> ohttp_encapsulate(session.ohttp_config, "GET",
                                Enrolled_fallback_target(session), None)]


\* ------------------------------------------------------------ serde
\* A serialized struct is the sequence of its fields, each a name and a JSON
\* value: a string, or an array of bytes.
JsonString(str) == [t |-> "string", str |-> str, bytes |-> <<>>]
JsonBytes(bytes) == [t |-> "bytes", str |-> "", bytes |-> bytes]
Field(name, value) == [k |-> name, v |-> value]

\* a secret key written with its low byte first
secret_bytes_le(sk) == <<sk % 256, sk \div 256>>

\* a secret key as big-endian bytes (two of them, here), and back
secret_bytes(sk) == <<sk \div 256, sk % 256>>
from_seckey_slice(bytes) ==
    IF Len(bytes) # 2 \/ bytes[1] * 256 + bytes[2] = 0 THEN Err("InvalidSecretKey")
    ELSE Ok(bytes[1] * 256 + bytes[2])

\* impl Serialize for Enrolled
Enrolled_serialize(session) ==
    <<Field("relay_url", JsonString(Url_to_string(session.relay_url))),
      Field("ohttp_config", JsonBytes(session.ohttp_config)),
      Field("ohttp_proxy", JsonString(Url_to_string(session.ohttp_proxy))),
      Field("s", JsonBytes(secret_bytes(session.s)))>>

\* impl Deserialize for Enrolled: EnrolledVisitor::visit_map
RECURSIVE visit_map(_, _, _)
visit_map(map, k, acc) ==
    IF k > Len(map)
    THEN IF acc.relay_url = None THEN Err("missing_field relay_url")
         ELSE IF acc.ohttp_config = None THEN Err("missing_field ohttp_config")
         ELSE IF acc.ohttp_proxy = None THEN Err("missing_field ohttp_proxy")
         ELSE IF acc.s = None THEN Err("missing_field s")
         ELSE Ok([relay_url |-> Unwrap(acc.relay_url),
                  ohttp_config |-> Unwrap(acc.ohttp_config),
                  ohttp_proxy |-> Unwrap(acc.ohttp_proxy), s |-> Unwrap(acc.s)])
    ELSE LET key == map[k].k
             value == map[k].v
         IN  IF key \notin {"relay_url", "ohttp_config", "ohttp_proxy", "s"}
             THEN Err("unknown_field")
             ELSE IF acc[key] # None THEN Err("duplicate_field")
             ELSE IF key \in {"relay_url", "ohttp_proxy"}
             THEN IF value.t # "string" THEN Err("invalid_type")
                  ELSE LET u == Url_parse(value.str)
                       IN  IF ~u.ok THEN u
                           ELSE visit_map(map, k + 1, [acc EXCEPT ![key] = Some(u.v)])
             ELSE IF value.t # "bytes" THEN Err("invalid_type")
             ELSE IF key = "ohttp_config"
             THEN visit_map(map, k + 1, [acc EXCEPT ![key] = Some(value.bytes)])
             ELSE LET kp == from_seckey_slice(value.bytes)
                  IN  IF ~kp.ok THEN kp
                      ELSE visit_map(map, k + 1, [acc EXCEPT ![key] = Some(kp.v)])
Enrolled_deserialize(map) ==
    visit_map(map, 1, [relay_url |-> None, ohttp_config |-> None,
                       ohttp_proxy |-> None, s |-> None])

\* ------------------------------------------------------------ sender payloads
\* "<base64 PSBT>\n<query>": the PSBT parses or not, the query carries the
\* parameters.
Params(v, dos, om) ==
    [v |-> v, disable_output_substitution |-> dos, optimistic_merge |-> om]
Payload(valid, psbt, params) == [valid |-> valid, psbt |-> psbt, params |-> params]
PlainParams == Params(2, FALSE, TRUE)
Payloads ==
    {Payload(TRUE, p, PlainParams) : p \in OriginalPsbts}
        \cup {Payload(TRUE, PsbtGood, Params(2, TRUE, TRUE)),
              Payload(FALSE, PsbtGood, PlainParams)}
PayloadBytes(pl) == Bytes(200, pl)
NoPayload == Payload(FALSE, PsbtGood, PlainParams)
NoMessage == Sealed(0, 0, {}, Bytes(0, NoPayload))

\* A decapsulated directory response: empty, UTF-8 text, or binary.
Response(ohttp_ok, len, utf8, text, msg) ==
    [ohttp_ok |-> ohttp_ok, len |-> len, utf8 |-> utf8, text |-> text, msg |-> msg]
EmptyResponse == Response(TRUE, 0, FALSE, NoPayload, NoMessage)
BadOhttpResponse == Response(FALSE, 0, FALSE, NoPayload, NoMessage)
TextResponse(pl) == Response(TRUE, PayloadBytes(pl).len, TRUE, pl, NoMessage)
BinaryResponse(m) == Response(TRUE, m.len, FALSE, NoPayload, m)
TruncatedMessage == [NoMessage EXCEPT !.len = 10]

\* What a sender (or anybody else) may have put in the session's mailbox.
MessagesA(s) ==
    {encrypt_message_a(PayloadBytes(pl), e, PublicKey(to), 7).v :
        pl \in Payloads, e \in SenderKeys, to \in {s}}
      \cup {encrypt_message_a(PayloadBytes(Payload(TRUE, PsbtGood, PlainParams)), 2,
                              PublicKey(s + 50), 7).v,
            TruncatedMessage}
Responses(s) ==
    {EmptyResponse, BadOhttpResponse}
        \cup {TextResponse(pl) : pl \in Payloads}
        \cup {BinaryResponse(m) : m \in MessagesA(s)}

\* The mailbox of a receiver that collects several senders' proposals.
MultiPayloads ==
    {Payload(TRUE, p, PlainParams) : p \in {PsbtGood, PsbtOther, PsbtLegacy, PsbtOwned, PsbtNoPay}}
        \cup {Payload(TRUE, PsbtGood, Params(1, FALSE, TRUE)),
              Payload(TRUE, PsbtGood, Params(2, FALSE, FALSE)),
              Payload(TRUE, PsbtGood, Params(1, FALSE, FALSE)),
              Payload(TRUE, PsbtOther, Params(2, TRUE, TRUE))}
MultiResponses(s) ==
    {TextResponse(pl) : pl \in MultiPayloads}
        \cup {BinaryResponse(encrypt_message_a(
                  PayloadBytes(Payload(TRUE, PsbtOther, PlainParams)), 2, PublicKey(s), 7).v)}

\* ------------------------------------------------------------ state
VARIABLES
    insts,      \* every typestate struct ever created, by identity
    seen_db,    \* the sled default tree of seen inputs: [mem, disk] key sets
    polls,      \* directory responses given to process_res, in order
    sent,       \* the requests built by extract_v2_req, with their struct
    innerLog,   \* <<struct, method, result>> of every inner check that ran
    clones,     \* how often Clone has been used
    builder,    \* the proposals of the UncheckedProposalBuilder
    builds,     \* results of UncheckedProposalBuilder::build, in order
    sess,       \* SpecSession: the Enrolled session in memory
    sess_ctx,   \* SpecSession: the V2Context of the request received last
    snapshot,   \* SpecSession: the serialized session, and e when it was saved
    sess_log,   \* SpecSession: the operations so far
    recv_tree,  \* SpecCli: the sled tree "recv_sessions", [mem, disk]
    run,        \* SpecCli: the payjoin-cli process that is running, if any
    now,        \* SpecCli: the clock, in seconds
    enrolled,   \* SpecCli: session key -> expiry of the enrolled session
    acked,      \* SpecCli: sessions whose response upload was acknowledged
    cli_log,    \* SpecCli: the session operations of all runs
    inserts,    \* SpecCli: what insert_recv_session returned, per run
    nruns,      \* SpecCli: processes started so far
    seen_log,   \* SpecSeen: the calls of insert_input_seen_before, in order
    calls,      \* SpecRace: per thread, its call of insert_input_seen_before
    mailbox,    \* SpecLongPoll: session key -> what a sender posted to the directory
    fin,        \* SpecFinalized: a FinalizedProposal and what combine returned
    wrapper,    \* SpecPsbt: a bip78 Psbt made from an unchecked PSBT, and its uses
    probe       \* the last call of a function of the library: its inputs and what it returned

pipeVars == <<insts, seen_db, polls, sent, innerLog, clones, builder, builds>>
sessVars == <<sess, sess_ctx, snapshot, sess_log>>
cliVars == <<recv_tree, run, now, enrolled, acked, cli_log, inserts, nruns>>
seenVars == <<seen_log>>
libVars == <<calls, mailbox, fin, wrapper, probe>>
vars == <<pipeVars, sessVars, cliVars, seenVars, libVars>>

\* ------------------------------------------------------------ seen inputs
\* consensus serialization of an OutPoint: the txid, then vout as u32 LE
LE32(n) == <<n % 256, (n \div 256) % 256, (n \div 65536) % 256, (n \div 16777216) % 256>>
serialize(outpoint) == <<outpoint[1]>> \o LE32(outpoint[2])

\* sled::Tree::insert on the default tree: one atomic step that puts the key
\* and returns the value it replaced, if any.  The values are empty.
sled_insert_blind(db, key) ==
    [old |-> None, db |-> [db EXCEPT !.mem = db.mem \cup {key}]]
sled_insert(db, key) ==
    [old |-> IF key \in db.mem THEN Some(<<>>) ELSE None,
     db |-> [db EXCEPT !.mem = db.mem \cup {key}]]
\* sled::Db::flush: what is in memory is on disk
sled_flush(db) == [db EXCEPT !.disk = db.mem]

\* insert_input_seen_before looking the key up without inserting it
insert_input_seen_before_lookup(db, input, fault) ==
    LET key == serialize(input)
        was_seen_before == key \in db.mem
    IN  IF fault \in {"insert", "flush"} THEN [ret |-> Err("Sled"), db |-> db]
        ELSE [ret |-> Ok(was_seen_before), db |-> db]

\* insert_input_seen_before with the test of the old value inverted
insert_input_seen_before_inverted(db, input, fault) ==
    LET key == serialize(input)
        inserted == [db EXCEPT !.mem = db.mem \cup {key}]
    IN  IF fault = "insert" THEN [ret |-> Err("Sled"), db |-> db]
        ELSE IF fault = "flush" THEN [ret |-> Err("Sled"), db |-> inserted]
        ELSE [ret |-> Ok(key \notin db.mem),
              db |-> [inserted EXCEPT !.disk = inserted.mem]]

\* Database::insert_input_seen_before; fault names the sled call that fails.
insert_input_seen_before(db, input, fault) ==
    LET key == serialize(input)
        ins == sled_insert(db, key)
        was_seen_before == IsSome(ins.old)
    IN  IF fault = "insert" THEN [ret |-> Err("Sled"), db |-> db]
        ELSE IF fault = "flush" THEN [ret |-> Err("Sled"), db |-> ins.db]
        ELSE [ret |-> Ok(was_seen_before), db |-> sled_flush(ins.db)]

\* ------------------------------------------------------------ inner checks
\* receive::UncheckedProposal .. ProvisionalProposal, which v2.rs and
\* multiparty/mod.rs wrap.
inner_check_broadcast_suitability(psbt, can_broadcast) ==
    IF can_broadcast = "true" THEN "Ok"
    ELSE IF can_broadcast = "false" THEN "OriginalPsbtNotBroadcastable"
    ELSE "Server"

inner_check_inputs_not_owned(psbt) ==
    IF \E k \in DOMAIN psbt.ins : IsMine(psbt.ins[k].spk) THEN "InputOwned" ELSE "Ok"

MixedTypes(ins) ==
    \E j, k \in DOMAIN ins : ScriptType(ins[j].spk) # ScriptType(ins[k].spk)
inner_check_no_mixed_input_scripts(psbt) ==
    IF MixedTypes(psbt.ins) THEN "MixedInputScripts" ELSE "Ok"

\* is_known is called on the inputs in order and stops at the first input
\* that was seen (or at the first error).
RECURSIVE SeenFrom(_, _, _)
SeenFrom(ins, k, db) ==
    IF k > Len(ins) THEN [r |-> "Ok", db |-> db]
    ELSE LET c == insert_input_seen_before(db, ins[k].op, "none")
         IN  IF ~c.ret.ok THEN [r |-> "Server", db |-> c.db]
             ELSE IF c.ret.v THEN [r |-> "InputSeenBefore", db |-> c.db]
             ELSE SeenFrom(ins, k + 1, c.db)
inner_check_no_inputs_seen_before(psbt, db) == SeenFrom(psbt.ins, 1, db)

OwnedVouts(psbt) == {k \in DOMAIN psbt.outs : IsMine(psbt.outs[k])}
inner_identify_receiver_outputs(psbt) ==
    IF OwnedVouts(psbt) = {} THEN "MissingPayment" ELSE "Ok"

inner_contribute_inputs(psbt, input) ==
    IF MixedTypes(Append(psbt.ins, input)) THEN "MixedInputScripts" ELSE "Ok"

inner_finalize_proposal(psbt, wallet_process_psbt) ==
    IF wallet_process_psbt = "ok" THEN "Ok" ELSE "Server"

\* psbt::merge::merge_unsigned_tx: the union of the inputs, by outpoint, and
\* the union of the outputs.
RECURSIVE SortedSeq(_, _)
SortedSeq(S, rank) ==
    IF S = {} THEN <<>>
    ELSE LET m == CHOOSE x \in S : \A y \in S : rank[x] <= rank[y]
         IN  <<m>> \o SortedSeq(S \ {m}, rank)
OutPointRank(S) == [x \in S |-> 1000 * x.op[1] + 10 * x.op[2] + x.spk]
merge_unsigned_tx(acc, psbt) ==
    LET ins == SeqToSet(acc.ins) \cup SeqToSet(psbt.ins)
        outs == SeqToSet(acc.outs) \cup SeqToSet(psbt.outs)
    IN  MkPsbt(SortedSeq(ins, OutPointRank(ins)), SortedSeq(outs, [x \in outs |-> x]))

\* ------------------------------------------------------------ typestate structs
\* A struct is named <<root, lineage, depth>>: the poll (0: a build) it comes
\* from, the clone lineage (0: the original), the number of its state.
RootId(k) == <<k, 0, 1>>
BuildId(b) == <<0, b, 1>>
NextId(i) == <<i[1], i[2], i[3] + 1>>
CloneId(i, n) == <<i[1], n, i[3]>>
Put(f, i, rec) == (i :> rec) @@ f

Struct(st, psbt, params, context, sender_contexts, via) ==
    [st |-> st, psbt |-> psbt, params |-> params, context |-> context,
     sender_contexts |-> sender_contexts, owned_vouts |-> {}, contributed |-> 0,
     parent |-> None, via |-> via, clone_of |-> None, live |-> TRUE, res |-> "none"]

\* `self` passed by value: the struct is moved into the call.
Moved(i, res) == [insts EXCEPT ![i].live = FALSE, ![i].res = res]
\* Ok(Next { inner, context: self.context })
Succ(i, st, via) ==
    [insts[i] EXCEPT !.st = st, !.parent = i, !.via = via, !.clone_of = None,
                     !.live = TRUE, !.res = "none"]

UncheckedProposal_from_v2_payload(body, context) ==
    IF ~body.valid THEN Err("ParsePsbt")
    ELSE Ok(Struct("UncheckedProposal", body.psbt, body.params, context, <<>>,
                   "process_res"))

\* process_res forgetting the key it recovered
Enrolled_process_res_dropping_e(session, response) ==
    IF ~response.ohttp_ok THEN Err("OhttpEncapsulation")
    ELSE IF response.len = 0 THEN Ok(None)
    ELSE IF response.utf8
    THEN LET p == UncheckedProposal_from_v2_payload(response.text, V2Context(session, None))
         IN  IF p.ok THEN Ok(Some(p.v)) ELSE p
    ELSE LET d == decrypt_message_a(response.msg, session.s)
         IN  IF ~d.ok THEN d
             ELSE LET p == UncheckedProposal_from_v2_payload(
                               d.v.buffer.data, V2Context(session, None))
                  IN  IF p.ok THEN Ok(Some(p.v)) ELSE p

\* process_res without the test for an empty response
Enrolled_process_res_parsing_empty(session, response) ==
    IF ~response.ohttp_ok THEN Err("OhttpEncapsulation")
    ELSE IF response.utf8 \/ response.len = 0
    THEN LET p == UncheckedProposal_from_v2_payload(
                      IF response.len = 0 THEN NoPayload ELSE response.text,
                      V2Context(session, None))
         IN  IF p.ok THEN Ok(Some(p.v)) ELSE p
    ELSE LET d == decrypt_message_a(response.msg, session.s)
         IN  IF ~d.ok THEN d
             ELSE LET p == UncheckedProposal_from_v2_payload(
                               d.v.buffer.data, V2Context(session, Some(d.v.e)))
                  IN  IF p.ok THEN Ok(Some(p.v)) ELSE p

\* Enrolled::process_res: Ok(None), Ok(Some(proposal)) or an error
Enrolled_process_res(session, response) ==
    IF ~response.ohttp_ok THEN Err("OhttpEncapsulation")
    ELSE IF response.len = 0 THEN Ok(None)
    ELSE IF response.utf8
    THEN LET p == UncheckedProposal_from_v2_payload(response.text, V2Context(session, None))
         IN  IF p.ok THEN Ok(Some(p.v)) ELSE p
    ELSE LET d == decrypt_message_a(response.msg, session.s)
         IN  IF ~d.ok THEN d
             ELSE LET p == UncheckedProposal_from_v2_payload(
                               d.v.buffer.data, V2Context(session, Some(d.v.e)))
                  IN  IF p.ok THEN Ok(Some(p.v)) ELSE p

v2_check_broadcast_suitability(i, r) ==
    IF r = "Ok"
    THEN Put(Moved(i, r), NextId(i),
             Succ(i, "MaybeInputsOwned", "check_broadcast_suitability"))
    ELSE Moved(i, r)

v2_assume_interactive_receiver(i) ==
    Put(Moved(i, "Ok"), NextId(i),
        Succ(i, "MaybeInputsOwned", "assume_interactive_receiver"))

\* check_inputs_not_owned returning the state after the next check
v2_check_inputs_not_owned_skipping(i, r) ==
    IF r = "Ok"
    THEN Put(Moved(i, r), NextId(i),
             Succ(i, "MaybeInputsSeen", "check_inputs_not_owned"))
    ELSE Moved(i, r)

v2_check_inputs_not_owned(i, r) ==
    IF r = "Ok"
    THEN Put(Moved(i, r), NextId(i),
             Succ(i, "MaybeMixedInputScripts", "check_inputs_not_owned"))
    ELSE Moved(i, r)

\* check_no_mixed_input_scripts taking &self
v2_check_no_mixed_input_scripts_borrowing(i, r) ==
    IF r = "Ok"
    THEN Put(insts, NextId(i),
             Succ(i, "MaybeInputsSeen", "check_no_mixed_input_scripts"))
    ELSE insts

v2_check_no_mixed_input_scripts(i, r) ==
    IF r = "Ok"
    THEN Put(Moved(i, r), NextId(i),
             Succ(i, "MaybeInputsSeen", "check_no_mixed_input_scripts"))
    ELSE Moved(i, r)

v2_check_no_inputs_seen_before(i, r) ==
    IF r = "Ok"
    THEN Put(Moved(i, r), NextId(i),
             Succ(i, "OutputsUnknown", "check_no_inputs_seen_before"))
    ELSE Moved(i, r)

v2_identify_receiver_outputs(i, r) ==
    IF r = "Ok"
    THEN Put(Moved(i, r), NextId(i),
             [Succ(i, "ProvisionalProposal", "identify_receiver_outputs")
                 EXCEPT !.owned_vouts = OwnedVouts(insts[i].psbt)])
    ELSE Moved(i, r)

\* &mut self: the struct is changed in place
v2_contribute_witness_input(i, input) ==
    [insts EXCEPT ![i].psbt.ins = Append(@, input), ![i].contributed = @ + 1]

v2_substitute_output_address(i, script) ==
    [insts EXCEPT ![i].psbt.outs =
        [k \in DOMAIN @ |-> IF k \in insts[i].owned_vouts THEN script ELSE @[k]]]

\* finalize_proposal building the context anew, without the sender's key
v2_finalize_proposal_forgetting_e(i, r) ==
    IF r = "Ok"
    THEN Put(Moved(i, r), NextId(i),
             [Succ(i, "PayjoinProposal", "finalize_proposal") EXCEPT !.context.e = None])
    ELSE Moved(i, r)

v2_finalize_proposal(i, r) ==
    IF r = "Ok"
    THEN Put(Moved(i, r), NextId(i), Succ(i, "PayjoinProposal", "finalize_proposal"))
    ELSE Moved(i, r)

\* PayjoinProposal::extract_v2_req (&self); e_sec is the fresh key of
\* encrypt_message_b
PsbtBytes(psbt) == Bytes(100 * (Len(psbt.ins) + Len(psbt.outs)), psbt)
Base64Text(psbt) == [PsbtBytes(psbt) EXCEPT !.len = 4 * ((@ + 2) \div 3)]
\* extract_v2_req naming the slot after the key of the reply
PayjoinProposal_extract_v2_req_ephemeral_slot(p, e_sec) ==
    LET body == IF IsSome(p.context.e)
                THEN encrypt_message_b(PsbtBytes(p.psbt), Unwrap(p.context.e), e_sec)
                ELSE Ok(Base64Text(p.psbt))
        post_payjoin_target ==
            <<Url_to_string(p.context.relay_url), subdirectory(PublicKey(e_sec)),
              "/payjoin">>
    IN  IF ~body.ok THEN body
        ELSE Ok([url |-> p.context.ohttp_proxy,
                 body |-> ohttp_encapsulate(p.context.ohttp_config, "POST",
                                            post_payjoin_target, body.v)])

PayjoinProposal_extract_v2_req(p, e_sec) ==
    LET body == IF IsSome(p.context.e)
                THEN encrypt_message_b(PsbtBytes(p.psbt), Unwrap(p.context.e), e_sec)
                ELSE Ok(Base64Text(p.psbt))
        post_payjoin_target ==
            <<Url_to_string(p.context.relay_url), subdirectory(PublicKey(p.context.s)),
              "/payjoin">>
    IN  IF ~body.ok THEN body
        ELSE Ok([url |-> p.context.ohttp_proxy,
                 body |-> ohttp_encapsulate(p.context.ohttp_config, "POST",
                                            post_payjoin_target, body.v)])

\* ------------------------------------------------------------ multiparty
SUPPORTED_VERSIONS == {2}

UncheckedProposalBuilder_check_proposal_suitability(proposal) ==
    IF proposal.params.v \notin SUPPORTED_VERSIONS
    THEN Err("ProposalVersionNotSupported")
    ELSE IF ~proposal.params.optimistic_merge
    THEN Err("OptimisticMergeNotSupported")
    ELSE Ok(<<>>)

\* add pushing the proposal before it checks it
UncheckedProposalBuilder_add_pushing_first(proposals, proposal) ==
    LET c == UncheckedProposalBuilder_check_proposal_suitability(proposal)
        pushed == Append(proposals, proposal)
    IN  IF ~c.ok THEN [ret |-> c, proposals |-> pushed]
        ELSE [ret |-> Ok(pushed), proposals |-> pushed]

\* add(&mut self, proposal): the result, and self.proposals afterwards
UncheckedProposalBuilder_add(proposals, proposal) ==
    LET c == UncheckedProposalBuilder_check_proposal_suitability(proposal)
        pushed == Append(proposals, proposal)
    IN  IF ~c.ok THEN [ret |-> c, proposals |-> proposals]
        ELSE [ret |-> Ok(pushed), proposals |-> pushed]

RECURSIVE Reduce(_, _, _)
Reduce(psbts, k, acc) ==
    IF k > Len(psbts) THEN acc ELSE Reduce(psbts, k + 1, merge_unsigned_tx(acc, psbts[k]))

\* build content with a single proposal
UncheckedProposalBuilder_build_of_one(proposals) ==
    IF Len(proposals) < 1 THEN Err("NotEnoughProposals")
    ELSE LET psbts == [k \in DOMAIN proposals |-> proposals[k].psbt]
             agg_psbt == Reduce(psbts, 2, psbts[1])
             sender_contexts == [k \in DOMAIN proposals |-> proposals[k].context]
         IN  Ok(Struct("multiparty::UncheckedProposal", agg_psbt, proposals[1].params,
                       None, sender_contexts, "build"))

UncheckedProposalBuilder_build(proposals) ==
    IF Len(proposals) < 2 THEN Err("NotEnoughProposals")
    ELSE LET psbts == [k \in DOMAIN proposals |-> proposals[k].psbt]
             agg_psbt == Reduce(psbts, 2, psbts[1])
             sender_contexts == [k \in DOMAIN proposals |-> proposals[k].context]
         IN  Ok(Struct("multiparty::UncheckedProposal", agg_psbt, proposals[1].params,
                       None, sender_contexts, "build"))

multiparty_check_broadcast_suitability(i, r) ==
    IF r = "Ok"
    THEN Put(Moved(i, r), NextId(i),
             Succ(i, "multiparty::MaybeInputsOwned", "check_broadcast_suitability"))
    ELSE Moved(i, r)

multiparty_check_inputs_not_owned(i, r) ==
    IF r = "Ok"
    THEN Put(Moved(i, r), NextId(i),
             Succ(i, "multiparty::MaybeInputsSeen", "check_inputs_not_owned"))
    ELSE Moved(i, r)

multiparty_check_no_inputs_seen_before(i, r) ==
    IF r = "Ok"
    THEN Put(Moved(i, r), NextId(i),
             Succ(i, "multiparty::OutputsUnknown", "check_no_inputs_seen_before"))
    ELSE Moved(i, r)

\* identify_receiver_outputs going on after a failure
multiparty_identify_receiver_outputs_lenient(i, r) ==
    Put(Moved(i, r), NextId(i),
        [Succ(i, "multiparty::WantsOutputs", "identify_receiver_outputs")
            EXCEPT !.owned_vouts = OwnedVouts(insts[i].psbt)])

multiparty_identify_receiver_outputs(i, r) ==
    IF r = "Ok"
    THEN Put(Moved(i, r), NextId(i),
             [Succ(i, "multiparty::WantsOutputs", "identify_receiver_outputs")
                 EXCEPT !.owned_vouts = OwnedVouts(insts[i].psbt)])
    ELSE Moved(i, r)

multiparty_commit_outputs(i) ==
    Put(Moved(i, "Ok"), NextId(i), Succ(i, "multiparty::WantsInputs", "commit_outputs"))

multiparty_contribute_inputs(i, input, r) ==
    IF r = "Ok"
    THEN Put(Moved(i, r), NextId(i),
             [Succ(i, "multiparty::WantsInputs", "contribute_inputs")
                 EXCEPT !.psbt.ins = Append(@, input), !.contributed = @ + 1])
    ELSE Moved(i, r)

multiparty_commit_inputs(i) ==
    Put(Moved(i, "Ok"), NextId(i),
        Succ(i, "multiparty::ProvisionalProposal", "commit_inputs"))

multiparty_finalize_proposal(i, r) ==
    IF r = "Ok"
    THEN Put(Moved(i, r), NextId(i),
             Succ(i, "multiparty::PayjoinProposal", "finalize_proposal"))
    ELSE Moved(i, r)

\* v2::PayjoinProposal::new(v1, context)
PayjoinProposal_new(i, context) ==
    [Succ(i, "PayjoinProposal", "sender_iter")
        EXCEPT !.context = context, !.sender_contexts = <<>>]

\* sender_iter yielding a proposal for the first sender only
PayjoinProposal_sender_iter_first_only(i) ==
    [k \in {1} |-> PayjoinProposal_new(i, insts[i].sender_contexts[1])]

\* sender_iter(&self): one v2::PayjoinProposal per sender context
PayjoinProposal_sender_iter(i) ==
    [k \in DOMAIN insts[i].sender_contexts |->
        PayjoinProposal_new(i, insts[i].sender_contexts[k])]

\* the k-th item of the iterator of struct i
IterId(i, k) == <<i[1], i[2], i[3] + k>>

\* ------------------------------------------------------------ actions
Live(st) == {i \in DOMAIN insts : insts[i].live /\ insts[i].st = st}

\* session.process_res(response, context) on the next directory response
ProcessRes(s, response) ==
    LET r == Enrolled_process_res(Enrolled(s), response)
        got == r.ok /\ IsSome(r.v)
        id == RootId(Len(polls) + 1)
    IN  /\ insts' = IF got THEN Put(insts, id, Unwrap(r.v)) ELSE insts
        /\ polls' = Append(polls, [response |-> response, ret |-> r.err,
                                   inst |-> IF got THEN id ELSE None])

PollRes ==
    /\ Len(polls) < MaxPolls
    /\ \E s \in SessionKeys : \E response \in Responses(s) : ProcessRes(s, response)
    /\ UNCHANGED <<seen_db, sent, innerLog, clones, builder, builds>>
    /\ UNCHANGED <<sessVars, cliVars, seenVars, libVars>>

PollMulti ==
    /\ Len(polls) < MaxProposals
    /\ \E s \in SessionKeys : \E response \in MultiResponses(s) : ProcessRes(s, response)
    /\ UNCHANGED <<seen_db, sent, innerLog, clones, builder, builds>>
    /\ UNCHANGED <<sessVars, cliVars, seenVars, libVars>>

CheckBroadcastSuitability ==
    /\ \E i \in Live("UncheckedProposal") : \E can_broadcast \in {"true", "false", "err"} :
         LET r == inner_check_broadcast_suitability(insts[i].psbt, can_broadcast)
         IN  /\ insts' = v2_check_broadcast_suitability(i, r)
             /\ innerLog' = innerLog \cup {<<i, "check_broadcast_suitability", r>>}
    /\ UNCHANGED <<seen_db, polls, sent, clones, builder, builds>>
    /\ UNCHANGED <<sessVars, cliVars, seenVars, libVars>>

AssumeInteractiveReceiver ==
    /\ \E i \in Live("UncheckedProposal") :
         /\ insts' = v2_assume_interactive_receiver(i)
         /\ innerLog' = innerLog \cup {<<i, "assume_interactive_receiver", "Ok">>}
    /\ UNCHANGED <<seen_db, polls, sent, clones, builder, builds>>
    /\ UNCHANGED <<sessVars, cliVars, seenVars, libVars>>

CheckInputsNotOwned ==
    /\ \E i \in Live("MaybeInputsOwned") :
         LET r == inner_check_inputs_not_owned(insts[i].psbt)
         IN  /\ insts' = v2_check_inputs_not_owned(i, r)
             /\ innerLog' = innerLog \cup {<<i, "check_inputs_not_owned", r>>}
    /\ UNCHANGED <<seen_db, polls, sent, clones, builder, builds>>
    /\ UNCHANGED <<sessVars, cliVars, seenVars, libVars>>

CheckNoMixedInputScripts ==
    /\ \E i \in Live("MaybeMixedInputScripts") :
         LET r == inner_check_no_mixed_input_scripts(insts[i].psbt)
         IN  /\ insts' = v2_check_no_mixed_input_scripts(i, r)
             /\ innerLog' = innerLog \cup {<<i, "check_no_mixed_input_scripts", r>>}
    /\ UNCHANGED <<seen_db, polls, sent, clones, builder, builds>>
    /\ UNCHANGED <<sessVars, cliVars, seenVars, libVars>>

CheckNoInputsSeenBefore ==
    /\ \E i \in Live("MaybeInputsSeen") :
         LET c == inner_check_no_inputs_seen_before(insts[i].psbt, seen_db)
         IN  /\ insts' = v2_check_no_inputs_seen_before(i, c.r)
             /\ seen_db' = c.db
             /\ innerLog' = innerLog \cup {<<i, "check_no_inputs_seen_before", c.r>>}
    /\ UNCHANGED <<polls, sent, clones, builder, builds>>
    /\ UNCHANGED <<sessVars, cliVars, seenVars, libVars>>

\* session.process_res(&self, ..) on one session, poll after poll
PollResponses(s) ==
    Responses(s) \cup
    {BinaryResponse([encrypt_message_a(PayloadBytes(Payload(TRUE, PsbtGood, PlainParams)),
                                       2, PublicKey(s), 7).v EXCEPT !.e = 0])}
PollSession ==
    /\ Len(polls) < MaxRepolls
    /\ \E response \in PollResponses(sess.s) : ProcessRes(sess.s, response)
    /\ UNCHANGED <<seen_db, sent, innerLog, clones, builder, builds>>
    /\ UNCHANGED <<sessVars, cliVars, seenVars, libVars>>

IdentifyReceiverOutputs ==
    /\ \E i \in Live("OutputsUnknown") :
         LET r == inner_identify_receiver_outputs(insts[i].psbt)
         IN  /\ insts' = v2_identify_receiver_outputs(i, r)
             /\ innerLog' = innerLog \cup {<<i, "identify_receiver_outputs", r>>}
    /\ UNCHANGED <<seen_db, polls, sent, clones, builder, builds>>
    /\ UNCHANGED <<sessVars, cliVars, seenVars, libVars>>

ContributeWitnessInput ==
    /\ \E i \in Live("ProvisionalProposal") :
         /\ insts[i].contributed < MaxContrib
         /\ insts' = v2_contribute_witness_input(i, ReceiverInput)
    /\ UNCHANGED <<seen_db, polls, sent, innerLog, clones, builder, builds>>
    /\ UNCHANGED <<sessVars, cliVars, seenVars, libVars>>

SubstituteOutputAddress ==
    /\ \E i \in Live("ProvisionalProposal") :
         /\ ~insts[i].params.disable_output_substitution
         /\ insts' = v2_substitute_output_address(i, SubstituteScript)
         /\ insts' # insts
    /\ UNCHANGED <<seen_db, polls, sent, innerLog, clones, builder, builds>>
    /\ UNCHANGED <<sessVars, cliVars, seenVars, libVars>>

\* substitute_output_address called whatever the parameters of the sender
\* are: it returns (), there is no error it could return. The inner
\* substitute_output_address is not part of the source: when the sender
\* disabled the substitution it replaces the output or leaves it.
SubstituteOutputAddressCall ==
    /\ \E i \in Live("ProvisionalProposal") : \E inner_substitutes \in BOOLEAN :
         /\ ~inner_substitutes => insts[i].params.disable_output_substitution
         /\ insts' = IF inner_substitutes
                      THEN v2_substitute_output_address(i, SubstituteScript)
                      ELSE insts
         /\ probe' = [fn |-> "substitute_output_address", input |-> insts[i],
                       out |-> [ret |-> Ok(<<>>), self |-> insts'[i]]]
    /\ UNCHANGED <<seen_db, polls, sent, innerLog, clones, builder, builds>>
    /\ UNCHANGED <<sessVars, cliVars, seenVars, calls, mailbox, fin, wrapper>>

FinalizeProposal ==
    /\ \E i \in Live("ProvisionalProposal") : \E wallet_process_psbt \in {"ok", "err"} :
         LET r == inner_finalize_proposal(insts[i].psbt, wallet_process_psbt)
         IN  /\ insts' = v2_finalize_proposal(i, r)
             /\ innerLog' = innerLog \cup {<<i, "finalize_proposal", r>>}
    /\ UNCHANGED <<seen_db, polls, sent, clones, builder, builds>>
    /\ UNCHANGED <<sessVars, cliVars, seenVars, libVars>>

ExtractV2Req ==
    /\ \E i \in Live("PayjoinProposal") : \E e_sec \in ReplyKeys :
         LET r == PayjoinProposal_extract_v2_req(insts[i], e_sec)
         IN  /\ r.ok
             /\ sent' = sent \cup {[inst |-> i, req |-> r.v]}
    /\ UNCHANGED <<insts, seen_db, polls, innerLog, clones, builder, builds>>
    /\ UNCHANGED <<sessVars, cliVars, seenVars, libVars>>

\* #[derive(Clone)] on every typestate struct of v2.rs
V2States ==
    {"UncheckedProposal", "MaybeInputsOwned", "MaybeMixedInputScripts",
     "MaybeInputsSeen", "OutputsUnknown", "ProvisionalProposal", "PayjoinProposal"}
\* extract_v2_req called again on a proposal: encrypt_message_b draws a new
\* key at each call
UploadKeys == ReplyKeys \cup {6}
ExtractV2ReqAgain ==
    /\ \E i \in Live("PayjoinProposal") : \E e_sec \in UploadKeys :
         LET r == PayjoinProposal_extract_v2_req(insts[i], e_sec)
         IN  /\ r.ok
             /\ sent' = sent \cup {[inst |-> i, req |-> r.v]}
    /\ UNCHANGED <<insts, seen_db, polls, innerLog, clones, builder, builds>>
    /\ UNCHANGED <<sessVars, cliVars, seenVars, libVars>>

CloneState ==
    /\ clones < MaxClones
    /\ \E i \in DOMAIN insts :
         /\ insts[i].live
         /\ insts[i].st \in V2States
         /\ insts' = Put(insts, CloneId(i, clones + 1), [insts[i] EXCEPT !.clone_of = i])
    /\ clones' = clones + 1
    /\ UNCHANGED <<seen_db, polls, sent, innerLog, builder, builds>>
    /\ UNCHANGED <<sessVars, cliVars, seenVars, libVars>>

BuilderAdd ==
    /\ \E i \in Live("UncheckedProposal") :
         LET a == UncheckedProposalBuilder_add(builder, insts[i])
         IN  /\ builder' = a.proposals
             /\ insts' = Moved(i, IF a.ret.ok THEN "added" ELSE a.ret.err)
    /\ UNCHANGED <<seen_db, polls, sent, innerLog, clones, builds>>
    /\ UNCHANGED <<sessVars, cliVars, seenVars, libVars>>

\* builder.build(), which borrows the builder
Build(max) ==
    /\ Len(builds) < max
    /\ LET r == UncheckedProposalBuilder_build(builder)
           id == BuildId(Len(builds) + 1)
       IN  /\ insts' = IF r.ok THEN Put(insts, id, r.v) ELSE insts
           /\ builds' = Append(builds, [ret |-> r.err, inst |-> IF r.ok THEN id ELSE None,
                                        proposals |-> builder])
    /\ UNCHANGED <<seen_db, polls, sent, innerLog, clones, builder>>
    /\ UNCHANGED <<sessVars, cliVars, seenVars, libVars>>

BuilderBuild == Build(MaxBuilds)
BuilderBuildAgain == Build(MaxRebuilds)

MultiCheckBroadcastSuitability ==
    /\ \E i \in Live("multiparty::UncheckedProposal") :
       \E can_broadcast \in {"true", "false", "err"} :
         LET r == inner_check_broadcast_suitability(insts[i].psbt, can_broadcast)
         IN  /\ insts' = multiparty_check_broadcast_suitability(i, r)
             /\ innerLog' = innerLog \cup {<<i, "check_broadcast_suitability", r>>}
    /\ UNCHANGED <<seen_db, polls, sent, clones, builder, builds>>
    /\ UNCHANGED <<sessVars, cliVars, seenVars, libVars>>

MultiCheckInputsNotOwned ==
    /\ \E i \in Live("multiparty::MaybeInputsOwned") :
         LET r == inner_check_inputs_not_owned(insts[i].psbt)
         IN  /\ insts' = multiparty_check_inputs_not_owned(i, r)
             /\ innerLog' = innerLog \cup {<<i, "check_inputs_not_owned", r>>}
    /\ UNCHANGED <<seen_db, polls, sent, clones, builder, builds>>
    /\ UNCHANGED <<sessVars, cliVars, seenVars, libVars>>

MultiCheckNoInputsSeenBefore ==
    /\ \E i \in Live("multiparty::MaybeInputsSeen") :
         LET c == inner_check_no_inputs_seen_before(insts[i].psbt, seen_db)
         IN  /\ insts' = multiparty_check_no_inputs_seen_before(i, c.r)
             /\ seen_db' = c.db
             /\ innerLog' = innerLog \cup {<<i, "check_no_inputs_seen_before", c.r>>}
    /\ UNCHANGED <<polls, sent, clones, builder, builds>>
    /\ UNCHANGED <<sessVars, cliVars, seenVars, libVars>>

MultiIdentifyReceiverOutputs ==
    /\ \E i \in Live("multiparty::OutputsUnknown") :
         LET r == inner_identify_receiver_outputs(insts[i].psbt)
         IN  /\ insts' = multiparty_identify_receiver_outputs(i, r)
             /\ innerLog' = innerLog \cup {<<i, "identify_receiver_outputs", r>>}
    /\ UNCHANGED <<seen_db, polls, sent, clones, builder, builds>>
    /\ UNCHANGED <<sessVars, cliVars, seenVars, libVars>>

MultiCommitOutputs ==
    /\ \E i \in Live("multiparty::WantsOutputs") :
         insts' = multiparty_commit_outputs(i)
    /\ UNCHANGED <<seen_db, polls, sent, innerLog, clones, builder, builds>>
    /\ UNCHANGED <<sessVars, cliVars, seenVars, libVars>>

MultiContributeInputs ==
    /\ \E i \in Live("multiparty::WantsInputs") :
         /\ insts[i].contributed < MaxContrib
         /\ LET r == inner_contribute_inputs(insts[i].psbt, ReceiverInput)
            IN  /\ insts' = multiparty_contribute_inputs(i, ReceiverInput, r)
                /\ innerLog' = innerLog \cup {<<i, "contribute_inputs", r>>}
    /\ UNCHANGED <<seen_db, polls, sent, clones, builder, builds>>
    /\ UNCHANGED <<sessVars, cliVars, seenVars, libVars>>

MultiCommitInputs ==
    /\ \E i \in Live("multiparty::WantsInputs") :
         insts' = multiparty_commit_inputs(i)
    /\ UNCHANGED <<seen_db, polls, sent, innerLog, clones, builder, builds>>
    /\ UNCHANGED <<sessVars, cliVars, seenVars, libVars>>

MultiFinalizeProposal ==
    /\ \E i \in Live("multiparty::ProvisionalProposal") :
       \E wallet_process_psbt \in {"ok", "err"} :
         LET r == inner_finalize_proposal(insts[i].psbt, wallet_process_psbt)
         IN  /\ insts' = multiparty_finalize_proposal(i, r)
             /\ innerLog' = innerLog \cup {<<i, "finalize_proposal", r>>}
    /\ UNCHANGED <<seen_db, polls, sent, clones, builder, builds>>
    /\ UNCHANGED <<sessVars, cliVars, seenVars, libVars>>

\* proposal.sender_iter(), collected; the proposal is borrowed and stays live
MultiSenderIter ==
    /\ \E i \in Live("multiparty::PayjoinProposal") :
         /\ IterId(i, 1) \notin DOMAIN insts
         /\ LET items == PayjoinProposal_sender_iter(i)
                ids == {IterId(i, k) : k \in DOMAIN items}
            IN  insts' = [j \in DOMAIN insts \cup ids |->
                             IF j \in DOMAIN insts THEN insts[j] ELSE items[j[3] - i[3]]]
    /\ UNCHANGED <<seen_db, polls, sent, innerLog, clones, builder, builds>>
    /\ UNCHANGED <<sessVars, cliVars, seenVars, libVars>>

\* ------------------------------------------------------------ session actions
\* A caller that polls, saves (serde_json::to_string) and loads its session.
SessionResponses(s) ==
    {EmptyResponse, BadOhttpResponse, TextResponse(Payload(TRUE, PsbtGood, PlainParams))}
        \cup {BinaryResponse(encrypt_message_a(
                  PayloadBytes(Payload(TRUE, PsbtGood, PlainParams)), e, PublicKey(s), 7).v) :
              e \in SenderKeys}

SessionProcessRes ==
    /\ Len(sess_log) < MaxSessionOps
    /\ \E response \in SessionResponses(sess.s) :
         LET r == Enrolled_process_res(sess, response)
             got == r.ok /\ IsSome(r.v)
         IN  /\ sess_ctx' = IF got THEN Some(Unwrap(r.v).context) ELSE sess_ctx
             /\ sess_log' = Append(sess_log, [op |-> "process_res", ret |-> r.err,
                                              utf8 |-> response.utf8, got |-> got])
    /\ UNCHANGED <<sess, snapshot>>
    /\ UNCHANGED <<pipeVars, cliVars, seenVars, libVars>>

SessionSave ==
    /\ Len(sess_log) < MaxSessionOps
    /\ snapshot' = Some([json |-> Enrolled_serialize(sess),
                         e |-> IF IsSome(sess_ctx) THEN Unwrap(sess_ctx).e ELSE None])
    /\ sess_log' = Append(sess_log, [op |-> "save", ret |-> "", utf8 |-> FALSE,
                                     got |-> FALSE])
    /\ UNCHANGED <<sess, sess_ctx>>
    /\ UNCHANGED <<pipeVars, cliVars, seenVars, libVars>>

\* a new process reads the snapshot: what was only in memory is gone
SessionLoad ==
    /\ Len(sess_log) < MaxSessionOps
    /\ IsSome(snapshot)
    /\ LET d == Enrolled_deserialize(Unwrap(snapshot).json)
       IN  /\ sess' = IF d.ok THEN d.v ELSE sess
           /\ sess_ctx' = None
           /\ sess_log' = Append(sess_log, [op |-> "load", ret |-> d.err, utf8 |-> FALSE,
                                            got |-> d.ok])
    /\ UNCHANGED snapshot
    /\ UNCHANGED <<pipeVars, cliVars, seenVars, libVars>>

\* ------------------------------------------------------------ seen-input calls
Outpoints == {<<1, 0>>, <<1, 1>>, <<300, 0>>}
SledFaults == {"none", "insert", "flush"}

InsertInputSeenBefore ==
    /\ Len(seen_log) < MaxCalls
    /\ \E input \in Outpoints : \E fault \in SledFaults :
         LET c == insert_input_seen_before(seen_db, input, fault)
         IN  /\ seen_db' = c.db
             /\ seen_log' = Append(seen_log, [input |-> input, ret |-> c.ret])
    /\ UNCHANGED <<insts, polls, sent, innerLog, clones, builder, builds>>
    /\ UNCHANGED <<sessVars, cliVars, libVars>>

\* the database is closed and opened again
ReopenSeen ==
    /\ seen_db.mem # seen_db.disk
    /\ seen_db' = [seen_db EXCEPT !.mem = seen_db.disk]
    /\ UNCHANGED seen_log
    /\ UNCHANGED <<insts, polls, sent, innerLog, clones, builder, builds>>
    /\ UNCHANGED <<sessVars, cliVars, libVars>>

\* ------------------------------------------------------------ concurrent calls
\* Threads of one process share the Database; each runs
\* insert_input_seen_before, whose steps are the sled calls it makes.
Threads == 1..MaxThreads
NoCall ==
    [pc |-> "idle", input |-> <<0, 0>>, inserted |-> FALSE, old |-> None,
     ret |-> Err("none")]

\* let key = serialize(&input);
ThreadCall(t) ==
    /\ calls[t].pc = "idle"
    /\ \E input \in Outpoints :
         calls' = [calls EXCEPT ![t] = [NoCall EXCEPT !.pc = "insert", !.input = input]]
    /\ UNCHANGED <<mailbox, fin, wrapper, probe>>
    /\ UNCHANGED <<pipeVars, sessVars, cliVars, seenVars>>

\* let was_seen_before = self.0.insert(key.as_slice(), ..)?.is_some();
ThreadInsert(t) ==
    /\ calls[t].pc = "insert"
    /\ \E fault \in {"none", "insert"} :
         LET ins == sled_insert(seen_db, serialize(calls[t].input))
         IN  IF fault = "insert"
             THEN /\ calls' = [calls EXCEPT ![t].pc = "done", ![t].ret = Err("Sled")]
                  /\ UNCHANGED seen_db
             ELSE /\ calls' = [calls EXCEPT ![t].pc = "flush", ![t].inserted = TRUE,
                                            ![t].old = ins.old]
                  /\ seen_db' = ins.db
    /\ UNCHANGED <<mailbox, fin, wrapper, probe>>
    /\ UNCHANGED <<insts, polls, sent, innerLog, clones, builder, builds>>
    /\ UNCHANGED <<sessVars, cliVars, seenVars>>

\* self.0.flush()?; Ok(was_seen_before)
ThreadFlush(t) ==
    /\ calls[t].pc = "flush"
    /\ \E fault \in {"none", "flush"} :
         IF fault = "flush"
         THEN /\ calls' = [calls EXCEPT ![t].pc = "done", ![t].ret = Err("Sled")]
              /\ UNCHANGED seen_db
         ELSE /\ calls' = [calls EXCEPT ![t].pc = "done",
                                        ![t].ret = Ok(IsSome(calls[t].old))]
              /\ seen_db' = sled_flush(seen_db)
    /\ UNCHANGED <<mailbox, fin, wrapper, probe>>
    /\ UNCHANGED <<insts, polls, sent, innerLog, clones, builder, builds>>
    /\ UNCHANGED <<sessVars, cliVars, seenVars>>

\* ------------------------------------------------------------ payjoin-cli store
\* A sled tree: what the open database holds in memory, and what is on disk.
EmptyTree == [mem |-> <<>>, disk |-> <<>>]
TreePut(f, key, value) == (key :> value) @@ f
\* The process ends: writes that were not flushed are lost, or reached the
\* disk anyway.
Closed(tree) == {[mem |-> d, disk |-> d] : d \in {tree.mem, tree.disk}}

RecvFaults == {"none", "open_tree", "insert", "flush"}
insert_recv_session(tree, session, fault) ==
    LET key == PublicKey(session.s)
        value == Enrolled_serialize(session)
        inserted == [tree EXCEPT !.mem = TreePut(@, key, value)]
    IN  IF fault \in {"open_tree", "insert"} THEN [ret |-> Err("Sled"), tree |-> tree]
        ELSE IF fault = "flush" THEN [ret |-> Err("Sled"), tree |-> inserted]
        ELSE [ret |-> Ok(<<>>), tree |-> [inserted EXCEPT !.disk = inserted.mem]]

RECURSIVE DeserializeAll(_, _, _)
DeserializeAll(tree, keys, k) ==
    IF k > Len(keys) THEN Ok(<<>>)
    ELSE LET session == Enrolled_deserialize(tree[keys[k]])
             rest == DeserializeAll(tree, keys, k + 1)
         IN  IF ~session.ok THEN Err("Deserialize")
             ELSE IF ~rest.ok THEN rest
             ELSE Ok(<<session.v>> \o rest.v)
get_recv_sessions(tree) ==
    LET keys == DOMAIN tree.mem
    IN  DeserializeAll(tree.mem, SortedSeq(keys, [x \in keys |-> x]), 1)
\* the session resume_payjoins takes: the first one of the tree
get_recv_session(tree) ==
    LET sessions == get_recv_sessions(tree)
    IN  IF ~sessions.ok THEN sessions
        ELSE IF sessions.v = <<>> THEN Ok(None)
        ELSE Ok(Some(sessions.v[1]))

ClearFaults == {"none", "clear", "flush"}
clear_recv_session(tree, fault) ==
    LET cleared == [tree EXCEPT !.mem = <<>>]
    IN  IF fault = "clear" THEN [ret |-> Err("Sled"), tree |-> tree]
        ELSE IF fault = "flush" THEN [ret |-> Err("Sled"), tree |-> cleared]
        ELSE [ret |-> Ok(<<>>), tree |-> [cleared EXCEPT !.disk = <<>>]]

\* ------------------------------------------------------------ payjoin-cli receive
SessionSecs == 3600

\* receive_payjoin, from the enrolled session on: insert, then spawn
receive_payjoin_unchecked(tree, session, fault) ==
    LET ins == insert_recv_session(tree, session, fault)
    IN  [insert |-> ins.ret, tree |-> ins.tree, spawn |-> TRUE]

receive_payjoin(tree, session, fault) ==
    LET ins == insert_recv_session(tree, session, fault)
    IN  [insert |-> ins.ret, tree |-> ins.tree, spawn |-> ins.ret.ok]

\* process_v2_proposal asking the database before the other checks
process_v2_proposal_seen_first(proposal, db, can_broadcast, wallet_process_psbt) ==
    LET psbt == proposal.psbt
        check1 == inner_check_broadcast_suitability(psbt, can_broadcast)
        check2 == inner_check_inputs_not_owned(psbt)
        check3 == inner_check_no_mixed_input_scripts(psbt)
        check4 == inner_check_no_inputs_seen_before(psbt, db)
        outputs == inner_identify_receiver_outputs(psbt)
        contributed == MkPsbt(Append(psbt.ins, ReceiverInput), psbt.outs)
        substituted ==
            IF proposal.params.disable_output_substitution THEN contributed
            ELSE MkPsbt(contributed.ins,
                        [k \in DOMAIN psbt.outs |->
                            IF k \in OwnedVouts(psbt) THEN SubstituteScript
                            ELSE psbt.outs[k]])
        final == inner_finalize_proposal(substituted, wallet_process_psbt)
    IN  IF check1 # "Ok" THEN [ret |-> Err(check1), db |-> check4.db]
        ELSE IF check2 # "Ok" THEN [ret |-> Err(check2), db |-> check4.db]
        ELSE IF check3 # "Ok" THEN [ret |-> Err(check3), db |-> check4.db]
        ELSE IF check4.r # "Ok" THEN [ret |-> Err(check4.r), db |-> check4.db]
        ELSE IF outputs # "Ok" THEN [ret |-> Err(outputs), db |-> check4.db]
        ELSE IF final # "Ok" THEN [ret |-> Err(final), db |-> check4.db]
        ELSE [ret |-> Ok([proposal EXCEPT !.st = "PayjoinProposal", !.psbt = substituted,
                                          !.owned_vouts = OwnedVouts(psbt),
                                          !.via = "finalize_proposal"]),
              db |-> check4.db]

\* process_v2_proposal forgetting the inputs of a proposal that fails later
process_v2_proposal_rolling_back(proposal, db, can_broadcast, wallet_process_psbt) ==
    LET psbt == proposal.psbt
        check1 == inner_check_broadcast_suitability(psbt, can_broadcast)
        check2 == inner_check_inputs_not_owned(psbt)
        check3 == inner_check_no_mixed_input_scripts(psbt)
        check4 == inner_check_no_inputs_seen_before(psbt, db)
        outputs == inner_identify_receiver_outputs(psbt)
        contributed == MkPsbt(Append(psbt.ins, ReceiverInput), psbt.outs)
        substituted ==
            IF proposal.params.disable_output_substitution THEN contributed
            ELSE MkPsbt(contributed.ins,
                        [k \in DOMAIN psbt.outs |->
                            IF k \in OwnedVouts(psbt) THEN SubstituteScript
                            ELSE psbt.outs[k]])
        final == inner_finalize_proposal(substituted, wallet_process_psbt)
    IN  IF check1 # "Ok" THEN [ret |-> Err(check1), db |-> db]
        ELSE IF check2 # "Ok" THEN [ret |-> Err(check2), db |-> db]
        ELSE IF check3 # "Ok" THEN [ret |-> Err(check3), db |-> db]
        ELSE IF check4.r # "Ok" THEN [ret |-> Err(check4.r), db |-> check4.db]
        ELSE IF outputs # "Ok" THEN [ret |-> Err(outputs), db |-> db]
        ELSE IF final # "Ok" THEN [ret |-> Err(final), db |-> db]
        ELSE [ret |-> Ok([proposal EXCEPT !.st = "PayjoinProposal", !.psbt = substituted,
                                          !.owned_vouts = OwnedVouts(psbt),
                                          !.via = "finalize_proposal"]),
              db |-> check4.db]

\* App::process_v2_proposal: the checks in the order of the calls
process_v2_proposal(proposal, db, can_broadcast, wallet_process_psbt) ==
    LET psbt == proposal.psbt
        check1 == inner_check_broadcast_suitability(psbt, can_broadcast)
        check2 == inner_check_inputs_not_owned(psbt)
        check3 == inner_check_no_mixed_input_scripts(psbt)
        check4 == inner_check_no_inputs_seen_before(psbt, db)
        outputs == inner_identify_receiver_outputs(psbt)
        contributed == MkPsbt(Append(psbt.ins, ReceiverInput), psbt.outs)
        substituted ==
            IF proposal.params.disable_output_substitution THEN contributed
            ELSE MkPsbt(contributed.ins,
                        [k \in DOMAIN psbt.outs |->
                            IF k \in OwnedVouts(psbt) THEN SubstituteScript
                            ELSE psbt.outs[k]])
        final == inner_finalize_proposal(substituted, wallet_process_psbt)
    IN  IF check1 # "Ok" THEN [ret |-> Err(check1), db |-> db]
        ELSE IF check2 # "Ok" THEN [ret |-> Err(check2), db |-> db]
        ELSE IF check3 # "Ok" THEN [ret |-> Err(check3), db |-> db]
        ELSE IF check4.r # "Ok" THEN [ret |-> Err(check4.r), db |-> check4.db]
        ELSE IF outputs # "Ok" THEN [ret |-> Err(outputs), db |-> check4.db]
        ELSE IF final # "Ok" THEN [ret |-> Err(final), db |-> check4.db]
        ELSE [ret |-> Ok([proposal EXCEPT !.st = "PayjoinProposal", !.psbt = substituted,
                                          !.owned_vouts = OwnedVouts(psbt),
                                          !.via = "finalize_proposal"]),
              db |-> check4.db]

\* the end of spawn_payjoin_receiver: clear_recv_session after process_res
spawn_payjoin_receiver_end(tree, acknowledged, fault) ==
    IF acknowledged THEN clear_recv_session(tree, fault).tree ELSE tree

\* ------------------------------------------------------------ payjoin-cli actions
Idle == [id |-> 0, kind |-> "none", pc |-> "idle", session |-> None, proposal |-> None,
         polls |-> 0]
Event(op, ret) ==
    [run |-> run.id, kind |-> run.kind, op |-> op, s |-> Unwrap(run.session).s,
     now |-> now, ret |-> ret]
CliResponses(s) ==
    {EmptyResponse, TextResponse(Payload(TRUE, PsbtGood, PlainParams)),
     TextResponse(Payload(TRUE, PsbtOwned, PlainParams)),
     BinaryResponse(encrypt_message_a(
         PayloadBytes(Payload(TRUE, PsbtOther, PlainParams)), 2, PublicKey(s), 7).v)}

\* `payjoin-cli receive`: enroll, insert_recv_session, spawn_payjoin_receiver
ReceivePayjoin ==
    /\ run.pc = "idle"
    /\ nruns < MaxRuns
    /\ Cardinality(DOMAIN enrolled) < MaxSessions
    /\ \E fault \in RecvFaults :
         LET s == Cardinality(DOMAIN enrolled) + 1
             session == Enrolled(s)
             r == receive_payjoin(recv_tree, session, fault)
             key == PublicKey(s)
         IN  /\ enrolled' = (s :> now + SessionSecs) @@ enrolled
             /\ inserts' = inserts \cup
                  {[run |-> nruns + 1, s |-> s, ok |-> r.insert.ok,
                    durable |-> /\ key \in DOMAIN r.tree.disk
                                /\ r.tree.disk[key] = Enrolled_serialize(session)]}
             /\ IF r.spawn
                THEN /\ run' = [id |-> nruns + 1, kind |-> "receive", pc |-> "long_poll",
                                session |-> Some(session), proposal |-> None, polls |-> 0]
                     /\ recv_tree' = r.tree
                ELSE /\ run' = Idle
                     /\ recv_tree' \in Closed(r.tree)
    /\ nruns' = nruns + 1
    /\ UNCHANGED <<now, acked, cli_log>>
    /\ UNCHANGED <<pipeVars, sessVars, seenVars, libVars>>

\* `payjoin-cli resume`
ResumePayjoins ==
    /\ run.pc = "idle"
    /\ nruns < MaxRuns
    /\ LET session == get_recv_session(recv_tree)
       IN  run' = IF session.ok /\ IsSome(session.v)
                  THEN [id |-> nruns + 1, kind |-> "resume", pc |-> "long_poll",
                        session |-> session.v, proposal |-> None, polls |-> 0]
                  ELSE Idle
    /\ nruns' = nruns + 1
    /\ UNCHANGED <<recv_tree, now, enrolled, acked, cli_log, inserts>>
    /\ UNCHANGED <<pipeVars, sessVars, seenVars, libVars>>

\* one turn of the loop of long_poll_fallback, with what the HTTP request
\* to the relay gave; nth is the number of this turn
long_poll_turn_not_breaking(http_ok, response, nth) ==
    LET r == Enrolled_process_res(Unwrap(run.session), response)
    IN  /\ cli_log' = cli_log \cup {Event("extract_req", "Ok")}
              \cup (IF http_ok
                    THEN {Event("process_res", IF r.ok THEN "Ok" ELSE r.err)}
                    ELSE {})
        /\ IF http_ok /\ r.ok
           THEN /\ run' = [run EXCEPT !.polls = nth]
                /\ UNCHANGED recv_tree
           ELSE /\ run' = Idle
                /\ recv_tree' \in Closed(recv_tree)

long_poll_turn(http_ok, response, nth) ==
    LET r == Enrolled_process_res(Unwrap(run.session), response)
    IN  /\ cli_log' = cli_log \cup {Event("extract_req", "Ok")}
              \cup (IF http_ok
                    THEN {Event("process_res", IF r.ok THEN "Ok" ELSE r.err)}
                    ELSE {})
        /\ IF http_ok /\ r.ok /\ IsSome(r.v)
           THEN /\ run' = [run EXCEPT !.pc = "process", !.proposal = r.v, !.polls = nth]
                /\ UNCHANGED recv_tree
           ELSE IF http_ok /\ r.ok
           THEN /\ run' = [run EXCEPT !.polls = nth]
                /\ UNCHANGED recv_tree
           ELSE /\ run' = Idle
                /\ recv_tree' \in Closed(recv_tree)

LongPollFallback ==
    /\ run.pc = "long_poll"
    /\ run.polls < MaxCliPolls
    /\ \E http_ok \in BOOLEAN : \E response \in CliResponses(Unwrap(run.session).s) :
         long_poll_turn(http_ok, response, run.polls + 1)
    /\ UNCHANGED <<now, enrolled, acked, inserts, nruns>>
    /\ UNCHANGED <<pipeVars, sessVars, seenVars, libVars>>

\* The directory's mailbox of a session: empty until a sender posts, and from
\* then on holding what was posted.
Mail(s) == IF s \in DOMAIN mailbox THEN mailbox[s] ELSE EmptyResponse
Posts(s) == (CliResponses(s) \ {EmptyResponse}) \cup {TextResponse(NoPayload)}

SenderPosts ==
    /\ \E s \in DOMAIN enrolled \ DOMAIN mailbox : \E response \in Posts(s) :
         mailbox' = (s :> response) @@ mailbox
    /\ UNCHANGED <<calls, fin, wrapper, probe>>
    /\ UNCHANGED <<pipeVars, sessVars, cliVars, seenVars>>

\* a turn of the loop whose request reaches the directory; the count of the
\* turns stops at MaxCliPolls, the loop does not
PollDirectory ==
    /\ run.pc = "long_poll"
    /\ long_poll_turn(TRUE, Mail(Unwrap(run.session).s),
                      IF run.polls < MaxCliPolls THEN run.polls + 1 ELSE run.polls)
    /\ UNCHANGED <<now, enrolled, acked, inserts, nruns>>
    /\ UNCHANGED <<pipeVars, sessVars, seenVars, libVars>>

ProcessV2Proposal ==
    /\ run.pc = "process"
    /\ \E can_broadcast \in {"true", "false"} : \E wallet_process_psbt \in {"ok", "err"} :
         LET r == process_v2_proposal(Unwrap(run.proposal), seen_db, can_broadcast,
                                      wallet_process_psbt)
         IN  /\ seen_db' = r.db
             /\ IF r.ret.ok
                THEN /\ run' = [run EXCEPT !.pc = "respond", !.proposal = Some(r.ret.v)]
                     /\ UNCHANGED recv_tree
                ELSE /\ run' = Idle
                     /\ recv_tree' \in Closed(recv_tree)
    /\ UNCHANGED <<now, enrolled, acked, cli_log, inserts, nruns>>
    /\ UNCHANGED <<insts, polls, sent, innerLog, clones, builder, builds>>
    /\ UNCHANGED <<sessVars, seenVars, libVars>>

\* extract_v2_req, the upload, process_res of its answer, clear_recv_session
Respond ==
    /\ run.pc = "respond"
    /\ \E e_sec \in ReplyKeys : \E http_ok, res_ok \in BOOLEAN : \E fault \in ClearFaults :
         LET req == PayjoinProposal_extract_v2_req(Unwrap(run.proposal), e_sec)
             acknowledged == req.ok /\ http_ok /\ res_ok
         IN  /\ cli_log' = cli_log
                   \cup {Event("extract_v2_req", IF req.ok THEN "Ok" ELSE req.err)}
                   \cup (IF req.ok /\ http_ok
                         THEN {Event("upload", IF res_ok THEN "Ok" ELSE "Deserialize")}
                         ELSE {})
             /\ acked' = IF acknowledged THEN acked \cup {Unwrap(run.session).s} ELSE acked
             /\ recv_tree' \in Closed(spawn_payjoin_receiver_end(recv_tree, acknowledged,
                                                                 fault))
    /\ run' = Idle
    /\ UNCHANGED <<now, enrolled, inserts, nruns>>
    /\ UNCHANGED <<pipeVars, sessVars, seenVars, libVars>>

\* the process is killed
Interrupt ==
    /\ run.pc # "idle"
    /\ run' = Idle
    /\ recv_tree' \in Closed(recv_tree)
    /\ UNCHANGED <<now, enrolled, acked, cli_log, inserts, nruns>>
    /\ UNCHANGED <<pipeVars, sessVars, seenVars, libVars>>

Tick ==
    /\ now < MaxTicks * SessionSecs
    /\ now' = now + SessionSecs
    /\ UNCHANGED <<recv_tree, run, enrolled, acked, cli_log, inserts, nruns>>
    /\ UNCHANGED <<pipeVars, sessVars, seenVars, libVars>>

\* ------------------------------------------------------------ FinalizedProposal
\* The senders' signed proposals: a PSBT is its unsigned transaction and, per
\* input, whether final_script_sig and final_script_witness are set.
InputFinals == {[sig |-> FALSE, wit |-> FALSE], [sig |-> TRUE, wit |-> FALSE],
                [sig |-> FALSE, wit |-> TRUE]}
UnsignedTxs == {<<<<1, 0>>, <<1, 1>>>>, <<<<2, 0>>>>}
SignedPsbts == UNION {{[tx |-> tx, inputs |-> f] : f \in [DOMAIN tx -> InputFinals]} :
                         tx \in UnsignedTxs}
FinalizedProposals ==
    {[psbt |-> psbt, params |-> Params(v, FALSE, TRUE)] : psbt \in SignedPsbts, v \in {1, 2}}

\* bitcoin's Psbt::combine: the unsigned transactions must be the same, a
\* field that is unset is taken from the other PSBT
Psbt_combine(a, b) ==
    IF a.tx # b.tx THEN Err("FailedToCombinePsbts")
    ELSE Ok([a EXCEPT !.inputs = [k \in DOMAIN a.inputs |->
                [sig |-> a.inputs[k].sig \/ b.inputs[k].sig,
                 wit |-> a.inputs[k].wit \/ b.inputs[k].wit]]])

\* bitcoin's Psbt::extract_tx: the final scripts become the transaction's
\* script_sig and witness; the fee sanity check can refuse
Psbt_extract_tx(psbt, fee_sane) ==
    IF ~fee_sane THEN Err("BitcoinExtractTxError")
    ELSE Ok([input |-> [k \in DOMAIN psbt.inputs |->
                [script_sig_is_empty |-> ~psbt.inputs[k].sig,
                 witness_is_empty |-> ~psbt.inputs[k].wit]]])

FinalizedProposal_check_proposal_suitability(proposal) ==
    IF proposal.params.v \notin SUPPORTED_VERSIONS
    THEN Err("ProposalVersionNotSupported")
    ELSE Ok(<<>>)

\* add(&mut self, proposal): the result, and self.v2_proposals afterwards
FinalizedProposal_add(v2_proposals, proposal) ==
    LET c == FinalizedProposal_check_proposal_suitability(proposal)
    IN  IF ~c.ok THEN [ret |-> c, v2_proposals |-> v2_proposals]
        ELSE [ret |-> Ok(<<>>), v2_proposals |-> Append(v2_proposals, proposal)]

\* for proposal in self.v2_proposals.iter().skip(1) { agg_psbt.combine(..)? }
RECURSIVE CombineFrom(_, _, _)
CombineFrom(v2_proposals, k, agg_psbt) ==
    IF k > Len(v2_proposals) THEN Ok(agg_psbt)
    ELSE LET c == Psbt_combine(agg_psbt, v2_proposals[k].psbt)
         IN  IF ~c.ok THEN c ELSE CombineFrom(v2_proposals, k + 1, c.v)

\* combine returning the PSBT without looking at the extracted transaction
FinalizedProposal_combine_unchecked(v2_proposals, fee_sane) ==
    IF Len(v2_proposals) < 2 THEN Err("NotEnoughProposals")
    ELSE CombineFrom(v2_proposals, 2, v2_proposals[1].psbt)

FinalizedProposal_combine(v2_proposals, fee_sane) ==
    IF Len(v2_proposals) < 2 THEN Err("NotEnoughProposals")
    ELSE LET agg_psbt == CombineFrom(v2_proposals, 2, v2_proposals[1].psbt)
         IN  IF ~agg_psbt.ok THEN agg_psbt
             ELSE LET tx == Psbt_extract_tx(agg_psbt.v, fee_sane)
                  IN  IF ~tx.ok THEN tx
                      ELSE IF \E k \in DOMAIN tx.v.input :
                                  /\ tx.v.input[k].witness_is_empty
                                  /\ tx.v.input[k].script_sig_is_empty
                      THEN Err("InputMissingWitnessOrScriptSig")
                      ELSE Ok(agg_psbt.v)

\* FinalizedProposal::new(), before any call
NewFinalized == [v2_proposals |-> <<>>, adds |-> <<>>, combined |-> FALSE,
                 fee_sane |-> TRUE, out |-> Err("none")]

FinalizedAdd ==
    /\ ~fin.combined /\ Len(fin.adds) < MaxFinalized
    /\ \E proposal \in FinalizedProposals :
         LET a == FinalizedProposal_add(fin.v2_proposals, proposal)
         IN  fin' = [fin EXCEPT !.v2_proposals = a.v2_proposals,
                                !.adds = Append(@, a.ret.err)]
    /\ UNCHANGED <<calls, mailbox, wrapper, probe>>
    /\ UNCHANGED <<pipeVars, sessVars, cliVars, seenVars>>

\* combine(self): the proposal is consumed
FinalizedCombine ==
    /\ ~fin.combined
    /\ \E fee_sane \in BOOLEAN :
         fin' = [fin EXCEPT !.combined = TRUE, !.fee_sane = fee_sane,
                            !.out = FinalizedProposal_combine(fin.v2_proposals, fee_sane)]
    /\ UNCHANGED <<calls, mailbox, wrapper, probe>>
    /\ UNCHANGED <<pipeVars, sessVars, cliVars, seenVars>>

\* ------------------------------------------------------------ bip78 Psbt
\* An unchecked PSBT: the inputs and outputs of its unsigned transaction, its
\* own input and output maps (each a value a caller can overwrite), and the
\* three global maps.
Contents == {0, 1}
MapKeys == {1}
Blank(n) == [k \in 1..n |-> 0]
UncheckedPsbts ==
    {[unsigned_tx |-> [input |-> Blank(a), output |-> Blank(b)],
      inputs |-> Blank(c), outputs |-> Blank(d),
      xpub |-> {}, proprietary |-> {}, unknown |-> {}] : a, b, c, d \in 0..MaxCount}

\* try_from that compares the input counts only
Psbt_try_from_inputs_only(unchecked) ==
    IF Len(unchecked.inputs) # Len(unchecked.unsigned_tx.input)
    THEN Err("UnequalInputCounts")
    ELSE Ok(unchecked)

\* impl TryFrom<UncheckedPsbt> for Psbt
Psbt_try_from(unchecked) ==
    LET tx_ins == Len(unchecked.unsigned_tx.input)
        psbt_ins == Len(unchecked.inputs)
        tx_outs == Len(unchecked.unsigned_tx.output)
        psbt_outs == Len(unchecked.outputs)
    IN  IF psbt_ins # tx_ins THEN Err("UnequalInputCounts")
        ELSE IF psbt_outs # tx_outs THEN Err("UnequalOutputCounts")
        ELSE Ok(unchecked)

\* before the conversion: no Psbt
NoWrapper ==
    [unchecked |-> [unsigned_tx |-> [input |-> <<>>, output |-> <<>>],
                    inputs |-> <<>>, outputs |-> <<>>,
                    xpub |-> {}, proprietary |-> {}, unknown |-> {}],
     psbt |-> None, ret |-> "none", uses |-> {}]

\* Psbt::try_from(unchecked)
TryFromUnchecked ==
    /\ wrapper.ret = "none"
    /\ \E unchecked \in UncheckedPsbts :
         LET r == Psbt_try_from(unchecked)
         IN  wrapper' = [wrapper EXCEPT !.unchecked = unchecked,
                                        !.psbt = IF r.ok THEN Some(r.v) ELSE None,
                                        !.ret = IF r.ok THEN "Ok" ELSE r.err]
    /\ UNCHANGED <<calls, mailbox, fin, probe>>
    /\ UNCHANGED <<pipeVars, sessVars, cliVars, seenVars>>

\* a write through the slice inputs_mut returns: an element is overwritten,
\* the slice cannot grow or shrink
InputsMut ==
    /\ IsSome(wrapper.psbt)
    /\ \E k \in DOMAIN Unwrap(wrapper.psbt).inputs : \E v \in Contents :
         wrapper' = [wrapper EXCEPT !.psbt[1].inputs[k] = v,
                                    !.uses = @ \cup {"inputs_mut"}]
    /\ UNCHANGED <<calls, mailbox, fin, probe>>
    /\ UNCHANGED <<pipeVars, sessVars, cliVars, seenVars>>

OutputsMut ==
    /\ IsSome(wrapper.psbt)
    /\ \E k \in DOMAIN Unwrap(wrapper.psbt).outputs : \E v \in Contents :
         wrapper' = [wrapper EXCEPT !.psbt[1].outputs[k] = v,
                                    !.uses = @ \cup {"outputs_mut"}]
    /\ UNCHANGED <<calls, mailbox, fin, probe>>
    /\ UNCHANGED <<pipeVars, sessVars, cliVars, seenVars>>

\* a write through the map xpub_mut returns: any change of the map
XpubMut ==
    /\ IsSome(wrapper.psbt)
    /\ \E m \in SUBSET MapKeys :
         wrapper' = [wrapper EXCEPT !.psbt[1].xpub = m, !.uses = @ \cup {"xpub_mut"}]
    /\ UNCHANGED <<calls, mailbox, fin, probe>>
    /\ UNCHANGED <<pipeVars, sessVars, cliVars, seenVars>>

ProprietaryMut ==
    /\ IsSome(wrapper.psbt)
    /\ \E m \in SUBSET MapKeys :
         wrapper' = [wrapper EXCEPT !.psbt[1].proprietary = m,
                                    !.uses = @ \cup {"proprietary_mut"}]
    /\ UNCHANGED <<calls, mailbox, fin, probe>>
    /\ UNCHANGED <<pipeVars, sessVars, cliVars, seenVars>>

UnknownMut ==
    /\ IsSome(wrapper.psbt)
    /\ \E m \in SUBSET MapKeys :
         wrapper' = [wrapper EXCEPT !.psbt[1].unknown = m, !.uses = @ \cup {"unknown_mut"}]
    /\ UNCHANGED <<calls, mailbox, fin, probe>>
    /\ UNCHANGED <<pipeVars, sessVars, cliVars, seenVars>>

\* ------------------------------------------------------------ library calls
\* A call of a function that keeps no state: what it was given and what it
\* returned.
NoProbe == [fn |-> "none"]
\* the variables such a call leaves alone
callVars == <<calls, mailbox, fin, wrapper, pipeVars, sessVars, cliVars, seenVars>>
Call(rest, fn, input, out) ==
    /\ probe' = [fn |-> fn, input |-> input, out |-> out]
    /\ UNCHANGED rest

\* ------------------------------------------------------------ Enrolled serde
EnrolledSessions ==
    {[relay_url |-> r, ohttp_config |-> c, ohttp_proxy |-> x, s |-> k] :
        r \in {RelayUrl, ProxyUrl}, c \in {<<>>, OhttpConfig},
        x \in {RelayUrl, ProxyUrl}, k \in {1, 255, 256, 65535}}

Without(map, k) == [j \in 1..(Len(map) - 1) |-> IF j < k THEN map[j] ELSE map[j + 1]]
Reversed(map) == [j \in DOMAIN map |-> map[Len(map) + 1 - j]]
\* the maps a JSON text can hold, made from the serialization of a session:
\* itself, its fields in another order, a field left out, a field twice, a
\* field the struct does not have
MapsOf(session) ==
    LET map == Enrolled_serialize(session)
    IN  {map, Reversed(map)}
            \cup {Without(map, k) : k \in DOMAIN map}
            \cup {Append(map, map[k]) : k \in DOMAIN map}
            \cup {<<map[k]>> \o map : k \in DOMAIN map}
            \cup {Append(map, Field("e", JsonBytes(<<>>))),
                  <<Field("expiry", JsonString(""))>> \o map}

\* serde_json::from_str(&serde_json::to_string(&enrolled))
SerDeRoundtrip ==
    \E session \in EnrolledSessions :
        Call(callVars, "roundtrip", session, Enrolled_deserialize(Enrolled_serialize(session)))

\* serde_json::from_str::<Enrolled>(text)
DeserializeMap ==
    \E session \in EnrolledSessions : \E map \in MapsOf(session) :
        Call(callVars, "deserialize", [map |-> map, session |-> session], Enrolled_deserialize(map))

\* ------------------------------------------------------------ session requests
\* The three requests of a session: enrollment, poll, response.
EnrollReq ==
    \E enroller \in EnrolledSessions :
        Call(callVars, "Enroller::extract_req", enroller, Enroller_extract_req(enroller))

PollReq ==
    \E session \in EnrolledSessions :
        Call(callVars, "Enrolled::extract_req", session, Enrolled_extract_req(session))

PostReq ==
    \E session \in EnrolledSessions :
    \E e \in {None} \cup {Some(k) : k \in SenderKeys} : \E e_sec \in ReplyKeys :
        Call(callVars, "extract_v2_req", session,
             PayjoinProposal_extract_v2_req(
                 [context |-> V2Context(session, e), psbt |-> PsbtGood], e_sec))

\* ------------------------------------------------------------ acknowledgements
\* What the directory answers to an enrollment or to an upload: an OHTTP
\* message that opens or not, holding a binary HTTP message that parses or
\* not, with a status code and a body.
Acknowledgements ==
    {[ohttp_ok |-> o, bhttp_ok |-> b, status |-> st, content |-> c] :
        o \in BOOLEAN, b \in BOOLEAN, st \in {200, 204, 400, 404, 500},
        c \in {<<>>, <<1>>}}

\* ohttp_decapsulate: res_ctx.decapsulate, read_bhttp, response.content()
ohttp_decapsulate(res) ==
    IF ~res.ohttp_ok THEN Err("Ohttp")
    ELSE IF ~res.bhttp_ok THEN Err("Bhttp")
    ELSE Ok(res.content)

\* Enroller::process_res
Enroller_process_res(self, res) ==
    LET success == ohttp_decapsulate(res)
    IN  IF ~success.ok THEN success
        ELSE Ok([relay_url |-> self.relay_url, ohttp_config |-> self.ohttp_config,
                 ohttp_proxy |-> self.ohttp_proxy, s |-> self.s])

\* PayjoinProposal::deserialize_res
PayjoinProposal_deserialize_res(res) == ohttp_decapsulate(res)

EnrollRes ==
    \E enroller \in EnrolledSessions : \E res \in Acknowledgements :
        Call(callVars, "Enroller::process_res", [self |-> enroller, res |-> res],
             Enroller_process_res(enroller, res))

DeserializeRes ==
    \E res \in Acknowledgements :
        Call(callVars, "deserialize_res", [self |-> <<>>, res |-> res],
             PayjoinProposal_deserialize_res(res))

\* ------------------------------------------------------------ HPKE calls
\* plaintexts around the padded length
RawMessages ==
    {Bytes(len, data) : len \in {0, 1, PADDED_MESSAGE_BYTES - 1, PADDED_MESSAGE_BYTES,
                                  PADDED_MESSAGE_BYTES + 1, 2 * PADDED_MESSAGE_BYTES},
                        data \in {0, 1}}
\* what a peer can send in place of a message: a sealed message cut to a
\* length around the header's, its first 33 bytes a public key or not
ReceivedMessages ==
    {[Sealed(PublicKey(2), 7, SharedSecret(PublicKey(1), 2), Bytes(PADDED_MESSAGE_BYTES, 0))
         EXCEPT !.len = len, !.e = e] :
        len \in {0, PubkeyBytes - 1, PubkeyBytes, HpkeHeaderBytes - 1, HpkeHeaderBytes,
                 HpkeHeaderBytes + TagBytes,
                 HpkeHeaderBytes + PADDED_MESSAGE_BYTES + TagBytes},
        e \in {0, PublicKey(2), PublicKey(3)}}

\* the sender seals for S, the receiver opens with s
HpkeA ==
    \E raw_msg \in RawMessages : \E e_sec \in SenderKeys : \E s \in {1, 5} :
    \E nonce \in {0, 7} :
        LET message_a == encrypt_message_a(raw_msg, e_sec, PublicKey(s), nonce)
        IN  Call(callVars, "message_a", [raw_msg |-> raw_msg, sealed_by |-> e_sec, opened_by |-> s],
                 [enc |-> message_a,
                  dec |-> IF message_a.ok THEN decrypt_message_a(message_a.v, s)
                          ELSE message_a])

\* the receiver seals for E, the sender opens with e
HpkeB ==
    \E raw_msg \in RawMessages : \E e \in SenderKeys : \E e_sec \in {4, 6} :
        LET message_b == encrypt_message_b(raw_msg, PublicKey(e), e_sec)
        IN  Call(callVars, "message_b", [raw_msg |-> raw_msg, sealed_by |-> e_sec, opened_by |-> e],
                 [enc |-> message_b,
                  dec |-> IF message_b.ok THEN decrypt_message_b(message_b.v, e)
                          ELSE message_b])

DecryptA ==
    \E message_a \in ReceivedMessages : \E s \in {1, 5} :
        Call(callVars, "decrypt_message_a", [message |-> message_a, key |-> s],
             decrypt_message_a(message_a, s))

DecryptB ==
    \E message_b \in ReceivedMessages : \E e \in SenderKeys :
        Call(callVars, "decrypt_message_b", [message |-> message_b, key |-> e],
             decrypt_message_b(message_b, e))

\* ------------------------------------------------------------ OhttpKeys
\* ohttp::KeyConfig::encode: key id, KEM, public key, the length in bytes of
\* the symmetric suites, then each suite as its KDF and its AEAD
RECURSIVE Suites(_)
Suites(symmetric) ==
    IF symmetric = <<>> THEN <<>>
    ELSE <<symmetric[1].kdf, symmetric[1].aead>> \o Suites(Tail(symmetric))
KeyConfig_encode(config) ==
    <<config.key_id, config.kem, config.pk, 4 * Len(config.symmetric)>>
        \o Suites(config.symmetric)

\* ohttp::KeyConfig::decode
KeyConfig_decode(bytes) ==
    IF Len(bytes) < 4 THEN Err("Ohttp")
    ELSE LET n == bytes[4] \div 4
         IN  IF bytes[4] % 4 # 0 \/ n = 0 \/ Len(bytes) # 4 + 2 * n THEN Err("Ohttp")
             ELSE Ok([key_id |-> bytes[1], kem |-> bytes[2], pk |-> bytes[3],
                      symmetric |-> [j \in 1..n |-> [kdf |-> bytes[3 + 2 * j],
                                                      aead |-> bytes[4 + 2 * j]]]])

\* a bech32m string: its human-readable part, its data, and whether its
\* checksum is the one of the two
encode_bech32(bytes, expected_hrp) ==
    Ok([hrp |-> expected_hrp, data |-> bytes, checksum_ok |-> TRUE])

\* decode_bech32 taking any human-readable part
decode_bech32_any_hrp(encoded, expected_hrp) ==
    IF ~encoded.checksum_ok THEN Err("Decode") ELSE Ok(encoded.data)

decode_bech32(encoded, expected_hrp) ==
    IF ~encoded.checksum_ok THEN Err("Decode")
    ELSE IF encoded.hrp # expected_hrp THEN Err("MismatchedHrp")
    ELSE Ok(encoded.data)

\* the DecodeBech32Error decode_bech32 returns, its fields in the order of the
\* call of the constructor: the part found, then the part expected
decode_bech32_error(encoded, expected_hrp) ==
    IF ~encoded.checksum_ok THEN [variant |-> "Decode", f0 |-> "", f1 |-> ""]
    ELSE [variant |-> "MismatchedHrp", f0 |-> encoded.hrp, f1 |-> expected_hrp]

\* impl Display for DecodeBech32Error: the first field is bound to `expected`,
\* the second to `actual`
DecodeBech32Error_fmt(self) ==
    IF self.variant = "MismatchedHrp"
    THEN LET expected == self.f0
             actual == self.f1
         IN  <<"Expected HRP: ", expected, ", got: ", actual>>
    ELSE <<"bech32::DecodeError">>

PK_HRP == "pk"
OH_HRP == "oh"
\* impl Display for OhttpKeys
OhttpKeys_to_string(keys) == encode_bech32(KeyConfig_encode(keys), OH_HRP).v
\* impl FromStr for OhttpKeys
OhttpKeys_from_str(str) ==
    LET bytes == decode_bech32(str, OH_HRP)
    IN  IF ~bytes.ok THEN bytes ELSE KeyConfig_decode(bytes.v)

SymmetricSuites == {[kdf |-> 1, aead |-> 1], [kdf |-> 1, aead |-> 3]}
KeyConfigs ==
    {[key_id |-> i, kem |-> k, pk |-> pk, symmetric |-> sym] :
        i \in {0, 1, 255}, k \in {16, 32}, pk \in {7, 8},
        sym \in [1..1 -> SymmetricSuites] \cup [1..2 -> SymmetricSuites]}
KeyStrings ==
    {[hrp |-> hrp, data |-> data, checksum_ok |-> c] :
        hrp \in {"oh", "pk", "bc"}, c \in BOOLEAN,
        data \in {KeyConfig_encode(k) : k \in KeyConfigs} \cup {<<>>, <<1, 32, 7, 4, 1>>}}

\* serde_json::from_str(&serde_json::to_string(&keys))
OhttpKeysRoundtrip ==
    \E keys \in KeyConfigs :
        Call(callVars, "roundtrip", keys, OhttpKeys_from_str(OhttpKeys_to_string(keys)))

OhttpKeysFromStr ==
    \E str \in KeyStrings : Call(callVars, "from_str", str, OhttpKeys_from_str(str))

\* decode_bech32 of a string under either expected part, the error displayed
DecodeBech32Message ==
    \E str \in KeyStrings : \E expected_hrp \in {OH_HRP, PK_HRP} :
        LET r == decode_bech32(str, expected_hrp)
        IN  Call(callVars, "decode_bech32", [encoded |-> str, expected_hrp |-> expected_hrp],
                 IF r.ok THEN [ok |-> TRUE, message |-> <<>>]
                 ELSE [ok |-> FALSE,
                       message |-> DecodeBech32Error_fmt(
                                       decode_bech32_error(str, expected_hrp))])

\* ------------------------------------------------------------ bip78 InputType
\* bitcoin::blockdata::opcodes::all, the opcodes the classifier meets
opcodes_all ==
    [OP_PUSHBYTES_0 |-> 0, OP_PUSHBYTES_2 |-> 2, OP_PUSHBYTES_20 |-> 20,
     OP_PUSHBYTES_33 |-> 33, OP_PUSHBYTES_40 |-> 40, OP_PUSHBYTES_65 |-> 65,
     OP_PUSHBYTES_75 |-> 75, OP_PUSHDATA1 |-> 76, OP_PUSHDATA2 |-> 77,
     OP_PUSHDATA4 |-> 78, OP_PUSHNUM_1 |-> 81, OP_PUSHNUM_16 |-> 96,
     OP_RETURN |-> 106, OP_DUP |-> 118, OP_EQUAL |-> 135, OP_EQUALVERIFY |-> 136,
     OP_HASH160 |-> 169, OP_CHECKSIG |-> 172]

\* bitcoin::blockdata::script::Instruction, and the Err item of the iterator
Instruction_PushBytes(bytes) == [t |-> "PushBytes", bytes |-> bytes, code |-> 0]
Instruction_Op(code) == [t |-> "Op", bytes |-> <<>>, code |-> code]
Instruction_Err == [t |-> "Err", bytes |-> <<>>, code |-> 0]

RECURSIVE read_le(_)
read_le(bytes) == IF bytes = <<>> THEN 0 ELSE Head(bytes) + 256 * read_le(Tail(bytes))

\* Script::instructions, all the items the iterator yields: a script is its
\* bytes; after an Err item the iterator is exhausted
RECURSIVE Script_instructions(_)
Script_instructions(script) ==
    IF script = <<>> THEN <<>>
    ELSE LET op == Head(script)
             rest == Tail(script)
             width == IF op = opcodes_all.OP_PUSHDATA1 THEN 1
                      ELSE IF op = opcodes_all.OP_PUSHDATA2 THEN 2
                      ELSE IF op = opcodes_all.OP_PUSHDATA4 THEN 4 ELSE 0
             n == IF op <= opcodes_all.OP_PUSHBYTES_75 THEN op
                  ELSE IF Len(rest) < width THEN 0
                  ELSE read_le(SubSeq(rest, 1, width))
         IN  IF op > opcodes_all.OP_PUSHDATA4
             THEN <<Instruction_Op(op)>> \o Script_instructions(rest)
             ELSE IF Len(rest) < width \/ Len(rest) < width + n
             THEN <<Instruction_Err>>
             ELSE <<Instruction_PushBytes(SubSeq(rest, width + 1, width + n))>>
                  \o Script_instructions(SubSeq(rest, width + n + 1, Len(rest)))

\* Script::is_p2pk
Script_is_p2pk(script) ==
    \/ /\ Len(script) = 67
       /\ script[1] = opcodes_all.OP_PUSHBYTES_65
       /\ script[67] = opcodes_all.OP_CHECKSIG
    \/ /\ Len(script) = 35
       /\ script[1] = opcodes_all.OP_PUSHBYTES_33
       /\ script[35] = opcodes_all.OP_CHECKSIG

\* Script::is_p2pkh
Script_is_p2pkh(script) ==
    /\ Len(script) = 25
    /\ script[1] = opcodes_all.OP_DUP
    /\ script[2] = opcodes_all.OP_HASH160
    /\ script[3] = opcodes_all.OP_PUSHBYTES_20
    /\ script[24] = opcodes_all.OP_EQUALVERIFY
    /\ script[25] = opcodes_all.OP_CHECKSIG

\* Script::is_p2sh
Script_is_p2sh(script) ==
    /\ Len(script) = 23
    /\ script[1] = opcodes_all.OP_HASH160
    /\ script[2] = opcodes_all.OP_PUSHBYTES_20
    /\ script[23] = opcodes_all.OP_EQUAL

\* Script::is_witness_program
Script_is_witness_program(script) ==
    /\ Len(script) >= 4 /\ Len(script) <= 42
    /\ \/ script[1] = opcodes_all.OP_PUSHBYTES_0
       \/ script[1] >= opcodes_all.OP_PUSHNUM_1 /\ script[1] <= opcodes_all.OP_PUSHNUM_16
    /\ script[2] >= opcodes_all.OP_PUSHBYTES_2
    /\ script[2] <= opcodes_all.OP_PUSHBYTES_40
    /\ Len(script) - 2 = script[2]

\* enum InputType
InputType_P2Pk == [variant |-> "P2Pk", ty |-> "", nested |-> FALSE]
InputType_P2Pkh == [variant |-> "P2Pkh", ty |-> "", nested |-> FALSE]
InputType_P2Sh == [variant |-> "P2Sh", ty |-> "", nested |-> FALSE]
InputType_SegWitV0(ty, nested) == [variant |-> "SegWitV0", ty |-> ty, nested |-> nested]
InputType_Taproot == [variant |-> "Taproot", ty |-> "", nested |-> FALSE]

\* unpack_p2sh taking the first instruction
unpack_p2sh_first(script_sig) ==
    LET instructions == Script_instructions(script_sig)
    IN  IF instructions = <<>> THEN None
        ELSE IF instructions[1].t = "PushBytes" THEN Some(instructions[1].bytes)
        ELSE None

\* unpack_p2sh: the script the last instruction of script_sig pushes
unpack_p2sh(script_sig) ==
    LET instructions == Script_instructions(script_sig)
        last == instructions[Len(instructions)]
    IN  IF instructions = <<>> THEN None
        ELSE IF last.t = "PushBytes" THEN Some(last.bytes)
        ELSE None

\* try_from taking any single push as a script hash
SegWitV0Type_try_from_any_push(instructions) ==
    IF instructions = <<>> \/ Len(instructions) > 1 THEN Err("UnknownInputType")
    ELSE IF instructions[1].t # "PushBytes" THEN Err("UnknownInputType")
    ELSE IF Len(instructions[1].bytes) = 20 THEN Ok("Pubkey")
    ELSE Ok("Script")

\* impl TryFrom<Instructions> for SegWitV0Type, on what is left of the iterator
SegWitV0Type_try_from(instructions) ==
    IF instructions = <<>> THEN Err("UnknownInputType")
    ELSE IF instructions[1].t = "Err" THEN Err("UnknownInputType")
    ELSE IF Len(instructions) > 1 THEN Err("UnknownInputType")
    ELSE IF instructions[1].t = "PushBytes" /\ Len(instructions[1].bytes) = 20
    THEN Ok("Pubkey")
    ELSE IF instructions[1].t = "PushBytes" /\ Len(instructions[1].bytes) = 32
    THEN Ok("Script")
    ELSE Err("UnknownInputType")

\* InputType::segwit_from_script
InputType_segwit_from_script(script, nested) ==
    LET instructions == Script_instructions(script)
        witness_version == instructions[1]
        instruction == instructions[2]
        ty == SegWitV0Type_try_from(Tail(instructions))
    IN  IF instructions = <<>> THEN Err("UnknownInputType")
        ELSE IF witness_version.t = "Err" THEN Err("UnknownInputType")
        ELSE IF witness_version.t = "PushBytes" /\ Len(witness_version.bytes) = 0
        THEN IF ty.ok THEN Ok(InputType_SegWitV0(ty.v, nested)) ELSE ty
        ELSE IF witness_version.t = "Op" /\ witness_version.code = opcodes_all.OP_PUSHNUM_1
        THEN IF Len(instructions) < 2 THEN Err("UnknownInputType")
             ELSE IF instruction.t = "Err" THEN Err("UnknownInputType")
             ELSE IF instruction.t = "PushBytes" /\ Len(instruction.bytes) = 32
             THEN Ok(InputType_Taproot)
             ELSE Err("UnknownInputType")
        ELSE Err("UnknownInputType")

\* InputType::from_spent_input
InputType_from_spent_input(txout, txin) ==
    LET script == IF IsSome(txin.final_script_sig)
                  THEN unpack_p2sh(Unwrap(txin.final_script_sig)) ELSE None
    IN  IF Script_is_p2pk(txout.script_pubkey) THEN Ok(InputType_P2Pk)
        ELSE IF Script_is_p2pkh(txout.script_pubkey) THEN Ok(InputType_P2Pkh)
        ELSE IF Script_is_p2sh(txout.script_pubkey)
        THEN IF ~IsSome(script) THEN Err("NotFinalized")
             ELSE IF Script_is_witness_program(Unwrap(script))
             THEN InputType_segwit_from_script(Unwrap(script), TRUE)
             ELSE Ok(InputType_P2Sh)
        ELSE IF Script_is_witness_program(txout.script_pubkey)
        THEN InputType_segwit_from_script(txout.script_pubkey, FALSE)
        ELSE Err("UnknownInputType")

\* crate::weight::Weight::from_non_witness_data_size
Weight_from_non_witness_data_size(size) == [non_witness_data_size |-> size]

\* unimplemented!(): the thread panics, nothing is returned
Unimplemented == Err("panic: not implemented")

\* InputType::expected_input_weight
InputType_expected_input_weight(self) ==
    IF self = InputType_P2Pk THEN Unimplemented
    ELSE IF self = InputType_P2Pkh THEN Ok(Weight_from_non_witness_data_size(148))
    ELSE IF self = InputType_P2Sh THEN Unimplemented
    ELSE IF self = InputType_SegWitV0("Pubkey", FALSE)
    THEN Ok(Weight_from_non_witness_data_size(68))
    ELSE IF self = InputType_SegWitV0("Pubkey", TRUE)
    THEN Ok(Weight_from_non_witness_data_size(91))
    ELSE IF self.variant = "SegWitV0" /\ self.ty = "Script" THEN Unimplemented
    ELSE Ok(Weight_from_non_witness_data_size(58))

InputTypes ==
    {InputType_P2Pk, InputType_P2Pkh, InputType_P2Sh, InputType_Taproot} \cup
    {InputType_SegWitV0(ty, nested) : ty \in {"Pubkey", "Script"}, nested \in BOOLEAN}

ExpectedInputWeight ==
    \E self \in InputTypes :
        Call(callVars, "expected_input_weight", self, InputType_expected_input_weight(self))

\* script::Builder::push_slice
Builder_push_slice(data) ==
    IF Len(data) <= opcodes_all.OP_PUSHBYTES_75 THEN <<Len(data)>> \o data
    ELSE <<opcodes_all.OP_PUSHDATA1, Len(data)>> \o data

\* n bytes of value b
Fill(n, b) == [k \in 1..n |-> b]
Script_new_p2pk(pubkey) == Builder_push_slice(pubkey) \o <<opcodes_all.OP_CHECKSIG>>
Script_new_p2pkh(hash) ==
    <<opcodes_all.OP_DUP, opcodes_all.OP_HASH160>> \o Builder_push_slice(hash)
        \o <<opcodes_all.OP_EQUALVERIFY, opcodes_all.OP_CHECKSIG>>
Script_new_p2sh(hash) ==
    <<opcodes_all.OP_HASH160>> \o Builder_push_slice(hash) \o <<opcodes_all.OP_EQUAL>>
Script_new_witness_program(version, program) == <<version>> \o Builder_push_slice(program)
Script_new_op_return(data) == <<opcodes_all.OP_RETURN>> \o Builder_push_slice(data)
wrap_p2sh_script(script) == Builder_push_slice(script)

\* witness programs: v0 of 20, 32 and 25 bytes, v1 of 32 and 20 bytes, v2, v16
WitnessPrograms ==
    {Script_new_witness_program(opcodes_all.OP_PUSHBYTES_0, Fill(20, 7)),
     Script_new_witness_program(opcodes_all.OP_PUSHBYTES_0, Fill(32, 7)),
     Script_new_witness_program(opcodes_all.OP_PUSHBYTES_0, Fill(25, 7)),
     Script_new_witness_program(opcodes_all.OP_PUSHNUM_1, Fill(32, 7)),
     Script_new_witness_program(opcodes_all.OP_PUSHNUM_1, Fill(20, 7)),
     Script_new_witness_program(opcodes_all.OP_PUSHNUM_1 + 1, Fill(32, 7)),
     Script_new_witness_program(opcodes_all.OP_PUSHNUM_16, Fill(2, 7))}
RedeemScripts ==
    WitnessPrograms \cup
    {Script_new_op_return(<<42>>),
     Fill(80, opcodes_all.OP_CHECKSIG),
     Script_new_witness_program(opcodes_all.OP_PUSHBYTES_0, Fill(41, 7))}
ScriptPubkeys ==
    WitnessPrograms \cup
    {Script_new_p2pk(<<2>> \o Fill(32, 80)),
     Script_new_p2pk(<<4>> \o Fill(64, 80)),
     Script_new_p2pkh(Fill(20, 9)),
     Script_new_p2sh(Fill(20, 9)),
     Script_new_op_return(<<42>>),
     <<>>}
ScriptSigs ==
    {wrap_p2sh_script(script) : script \in RedeemScripts} \cup
    {Builder_push_slice(Fill(71, 48)) \o wrap_p2sh_script(script) : script \in WitnessPrograms} \cup
    {Script_new_op_return(<<42>>),
     <<>>,
     <<opcodes_all.OP_PUSHNUM_1>>,
     wrap_p2sh_script(Script_new_witness_program(opcodes_all.OP_PUSHBYTES_0, Fill(20, 7)))
        \o <<opcodes_all.OP_PUSHNUM_1>>,
     <<5, 1, 2>>,
     <<opcodes_all.OP_PUSHDATA2, 1>>}
PsbtInputs ==
    {[final_script_sig |-> sig, final_script_witness |-> wit] :
        sig \in {None} \cup {Some(script) : script \in ScriptSigs},
        wit \in {None, Some(<<Fill(71, 48), <<2>> \o Fill(32, 80)>>)}}

FromSpentInput ==
    \E script_pubkey \in ScriptPubkeys : \E txin \in PsbtInputs :
        LET txout == [script_pubkey |-> script_pubkey, value |-> 42]
        IN  Call(callVars, "from_spent_input", [txout |-> txout, txin |-> txin],
                 InputType_from_spent_input(txout, txin))

\* ------------------------------------------------------------ PersisterId
PersisterIdBytes == 33      \* let mut bytes = [0u8; 33]
\* a txid is its 32 bytes
TxidOf(first, last) ==
    [k \in 1..(PersisterIdBytes - 1) |->
        IF k = 1 THEN first ELSE IF k = PersisterIdBytes - 1 THEN last ELSE 0]
PersisterIds ==
    {[txid |-> TxidOf(a, b), state_type |-> t] :
        a \in {0, 1}, b \in {0, 255}, t \in {0, 1, 255}}

\* to_bytes leaving the last byte as it was
PersisterId_to_bytes_txid_only(id) == Ok(id.txid \o <<0>>)

\* PersisterId::to_bytes: the txid, then state_type, written into 33 bytes
PersisterId_to_bytes(id) ==
    LET bytes == id.txid \o <<id.state_type>>
    IN  IF Len(bytes) > PersisterIdBytes THEN Err("Io") ELSE Ok(bytes)

\* PersisterId::from_bytes
PersisterId_from_bytes(bytes) ==
    IF Len(bytes) < PersisterIdBytes THEN Err("Io")
    ELSE Ok([txid |-> SubSeq(bytes, 1, PersisterIdBytes - 1),
             state_type |-> bytes[PersisterIdBytes]])

PersisterIdRoundtrip ==
    \E id \in PersisterIds :
        LET bytes == PersisterId_to_bytes(id)
        IN  Call(callVars, "to_bytes", id,
                 [bytes |-> bytes,
                  back |-> IF bytes.ok THEN PersisterId_from_bytes(bytes.v) ELSE bytes])

\* the keys of two snapshots
PersisterIdPair ==
    \E id1 \in PersisterIds : \E id2 \in PersisterIds :
        Call(callVars, "keys", <<id1, id2>>, <<PersisterId_to_bytes(id1), PersisterId_to_bytes(id2)>>)

\* ------------------------------------------------------------ bip78 InputPair
\* A previous transaction is its txid and its outputs; a TxOut is a number.
TxOuts == {1, 2}
Txids == {1, 2}
PrevTxs == {[txid |-> t, output |-> o] : t \in Txids,
              o \in UNION {[1..n -> TxOuts] : n \in 0..MaxOutputs}}
InputPairs ==
    {[txin |-> [previous_output |-> [txid |-> t, vout |-> v]],
      psbtin |-> [non_witness_utxo |-> n, witness_utxo |-> w]] :
        t \in Txids, v \in 0..MaxOutputs,
        n \in {None} \cup {Some(tx) : tx \in PrevTxs},
        w \in {None} \cup {Some(o) : o \in TxOuts}}

\* tx.output.get(vout).ok_or(IndexOutOfBounds)
OutputAt(tx, vout) ==
    IF vout + 1 \in DOMAIN tx.output THEN Ok(tx.output[vout + 1])
    ELSE Err("IndexOutOfBounds")

\* InputPair::previous_txout
previous_txout(pair) ==
    LET non_witness_utxo == pair.psbtin.non_witness_utxo
        witness_utxo == pair.psbtin.witness_utxo
    IN  IF ~IsSome(non_witness_utxo) /\ ~IsSome(witness_utxo)
        THEN Err("MissingUtxoInformation")
        ELSE IF IsSome(witness_utxo) THEN Ok(Unwrap(witness_utxo))
        ELSE OutputAt(Unwrap(non_witness_utxo), pair.txin.previous_output.vout)

\* InputPair::validate_utxo
validate_utxo(pair, treat_missing_as_error) ==
    LET non_witness_utxo == pair.psbtin.non_witness_utxo
        witness_utxo == pair.psbtin.witness_utxo
        previous_output == pair.txin.previous_output
    IN  IF ~IsSome(non_witness_utxo) /\ ~IsSome(witness_utxo)
        THEN IF treat_missing_as_error THEN Err("MissingUtxoInformation") ELSE Ok(<<>>)
        ELSE IF ~IsSome(witness_utxo)
        THEN IF Unwrap(non_witness_utxo).txid = previous_output.txid
             THEN LET o == OutputAt(Unwrap(non_witness_utxo), previous_output.vout)
                  IN  IF o.ok THEN Ok(<<>>) ELSE o
             ELSE Err("UnequalTxid")
        ELSE IF ~IsSome(non_witness_utxo) THEN Ok(<<>>)
        ELSE IF Unwrap(non_witness_utxo).txid = previous_output.txid
        THEN LET non_witness_txout == OutputAt(Unwrap(non_witness_utxo), previous_output.vout)
             IN  IF ~non_witness_txout.ok THEN non_witness_txout
                 ELSE IF Unwrap(witness_utxo) = non_witness_txout.v THEN Ok(<<>>)
                 ELSE Err("SegWitTxOutMismatch")
        ELSE Err("UnequalTxid")

PreviousTxout ==
    \E pair \in InputPairs : Call(callVars, "previous_txout", pair, previous_txout(pair))

ValidateUtxo ==
    \E pair \in InputPairs : \E treat_missing_as_error \in BOOLEAN :
        Call(callVars, "validate_utxo", [pair |-> pair, treat_missing_as_error |-> treat_missing_as_error],
             validate_utxo(pair, treat_missing_as_error))

\* validate_input_utxos reporting the failure it meets last
RECURSIVE Psbt_validate_input_utxos_last_failure(_, _, _)
Psbt_validate_input_utxos_last_failure(input_pairs, index, treat_missing_as_error) ==
    IF index >= Len(input_pairs) THEN Ok(<<>>)
    ELSE LET r == validate_utxo(input_pairs[Len(input_pairs) - index], treat_missing_as_error)
         IN  IF r.ok
             THEN Psbt_validate_input_utxos_last_failure(input_pairs, index + 1,
                                                         treat_missing_as_error)
             ELSE [ok |-> FALSE, v |-> <<>>, err |-> "PsbtInputsError",
                   index |-> Len(input_pairs) - index - 1, error |-> r.err]

\* Psbt::validate_input_utxos: enumerate, validate_utxo, map_err, and collect,
\* which stops at the first Err; index counts from the input the call starts at
RECURSIVE Psbt_validate_input_utxos(_, _, _)
Psbt_validate_input_utxos(input_pairs, index, treat_missing_as_error) ==
    IF index >= Len(input_pairs) THEN Ok(<<>>)
    ELSE LET r == validate_utxo(input_pairs[index + 1], treat_missing_as_error)
         IN  IF r.ok
             THEN Psbt_validate_input_utxos(input_pairs, index + 1, treat_missing_as_error)
             ELSE [ok |-> FALSE, v |-> <<>>, err |-> "PsbtInputsError",
                   index |-> index, error |-> r.err]

\* the inputs of a PSBT: none, one or two pairs that spend output 0 or 1 of
\* transaction 1, the previous transaction given having no output or one
PairsOfPsbt ==
    LET pairs == {pair \in InputPairs :
                     /\ pair.txin.previous_output.txid = 1
                     /\ pair.txin.previous_output.vout <= 1
                     /\ IsSome(pair.psbtin.non_witness_utxo) =>
                            Unwrap(pair.psbtin.non_witness_utxo).output \in {<<>>, <<1>>}}
    IN  UNION {[1..n -> pairs] : n \in 0..2}

ValidateInputUtxos ==
    \E input_pairs \in PairsOfPsbt : \E treat_missing_as_error \in BOOLEAN :
        Call(callVars, "validate_input_utxos",
             [input_pairs |-> input_pairs, treat_missing_as_error |-> treat_missing_as_error],
             Psbt_validate_input_utxos(input_pairs, 0, treat_missing_as_error))

\* ------------------------------------------------------------ proposals and the seen inputs
\* Original PSBTs the CLI is sent, one after the other, the database of seen
\* inputs staying: PsbtTwo spends a new outpoint and the one of PsbtGood
PsbtTwo == MkPsbt(<<In(5, 0, 1), In(1, 0, 1)>>, <<1, 3>>)
ReceivedPsbts == {PsbtGood, PsbtOwned, PsbtMixed, PsbtNoPay, PsbtOther, PsbtTwo}

ProcessProposal ==
    /\ \E psbt \in ReceivedPsbts : \E can_broadcast \in {"true", "false"} :
       \E wallet_process_psbt \in {"ok", "err"} :
         LET proposal == UncheckedProposal_from_v2_payload(
                             Payload(TRUE, psbt, PlainParams), V2Context(sess, None)).v
             r == process_v2_proposal(proposal, seen_db, can_broadcast, wallet_process_psbt)
         IN  /\ seen_db' = r.db
             /\ probe' = [fn |-> "process_v2_proposal",
                           input |-> [psbt |-> psbt, db |-> seen_db,
                                      can_broadcast |-> can_broadcast],
                           out |-> [ret |-> IF r.ret.ok THEN "Ok" ELSE r.ret.err,
                                    db |-> r.db]]
    /\ UNCHANGED <<insts, polls, sent, innerLog, clones, builder, builds>>
    /\ UNCHANGED <<sessVars, cliVars, seenVars, calls, mailbox, fin, wrapper>>

\* spawn_payjoin_receiver after process_v2_proposal returned: extract_v2_req,
\* the upload and its answer; no call to the database of seen inputs
UploadProposal ==
    /\ probe.fn = "process_v2_proposal" /\ probe.out.ret = "Ok"
    /\ \E uploaded \in BOOLEAN :
         probe' = [fn |-> "upload", input |-> probe.input,
                   out |-> [ret |-> IF uploaded THEN "Ok" ELSE "Failed", db |-> seen_db]]
    /\ UNCHANGED <<pipeVars, sessVars, cliVars, seenVars, calls, mailbox, fin, wrapper>>

\* ------------------------------------------------------------ specifications
LibStart ==
    /\ calls = [t \in Threads |-> NoCall]
    /\ mailbox = <<>>
    /\ fin = NewFinalized
    /\ wrapper = NoWrapper
    /\ probe = NoProbe

\* The seen-inputs database outlives a run: it is empty, or holds an input
\* recorded by an earlier run.
SeenStores == {[mem |-> S, disk |-> S] : S \in {{}, {serialize(<<1, 0>>)}}}

NoStructs ==
    /\ insts = <<>>
    /\ polls = <<>>
    /\ sent = {}
    /\ innerLog = {}
    /\ clones = 0
    /\ builder = <<>>
    /\ builds = <<>>
SessionStart ==
    /\ sess \in {Enrolled(s) : s \in SessionKeys}
    /\ sess_ctx = None
    /\ snapshot = None
    /\ sess_log = <<>>
CliStart ==
    /\ recv_tree = EmptyTree
    /\ run = Idle
    /\ now = 0
    /\ enrolled = <<>>
    /\ acked = {}
    /\ cli_log = {}
    /\ inserts = {}
    /\ nruns = 0

Init ==
    /\ NoStructs
    /\ seen_db \in SeenStores
    /\ SessionStart /\ CliStart /\ seen_log = <<>> /\ LibStart

Next ==
    \/ PollRes
    \/ CheckBroadcastSuitability
    \/ AssumeInteractiveReceiver
    \/ CheckInputsNotOwned
    \/ CheckNoMixedInputScripts
    \/ CheckNoInputsSeenBefore
    \/ IdentifyReceiverOutputs
    \/ ContributeWitnessInput
    \/ SubstituteOutputAddress
    \/ FinalizeProposal
    \/ ExtractV2Req
    \/ CloneState

Spec == Init /\ [][Next]_vars

NextMulti ==
    \/ PollMulti
    \/ CheckBroadcastSuitability
    \/ AssumeInteractiveReceiver
    \/ CheckInputsNotOwned
    \/ CheckNoMixedInputScripts
    \/ CheckNoInputsSeenBefore
    \/ IdentifyReceiverOutputs
    \/ FinalizeProposal
    \/ BuilderAdd
    \/ BuilderBuild
    \/ MultiCheckBroadcastSuitability
    \/ MultiCheckInputsNotOwned
    \/ MultiCheckNoInputsSeenBefore
    \/ MultiIdentifyReceiverOutputs
    \/ MultiCommitOutputs
    \/ MultiContributeInputs
    \/ MultiCommitInputs
    \/ MultiFinalizeProposal
    \/ MultiSenderIter

SpecMulti == Init /\ [][NextMulti]_vars

InitSession ==
    /\ NoStructs
    /\ seen_db = [mem |-> {}, disk |-> {}]
    /\ SessionStart /\ CliStart /\ seen_log = <<>> /\ LibStart
NextSession ==
    \/ SessionProcessRes
    \/ SessionSave
    \/ SessionLoad
SpecSession == InitSession /\ [][NextSession]_vars

\* a new database
InitSeen ==
    /\ NoStructs
    /\ seen_db = [mem |-> {}, disk |-> {}]
    /\ SessionStart /\ CliStart /\ seen_log = <<>> /\ LibStart
NextSeen ==
    \/ InsertInputSeenBefore
    \/ ReopenSeen
SpecSeen == InitSeen /\ [][NextSeen]_vars

InitRace ==
    /\ NoStructs
    /\ seen_db \in SeenStores
    /\ SessionStart /\ CliStart /\ seen_log = <<>> /\ LibStart
NextRace ==
    \/ \E t \in Threads : ThreadCall(t)
    \/ \E t \in Threads : ThreadInsert(t)
    \/ \E t \in Threads : ThreadFlush(t)
SpecRace == InitRace /\ [][NextRace]_vars

InitLongPoll ==
    /\ NoStructs
    /\ seen_db = [mem |-> {}, disk |-> {}]
    /\ SessionStart /\ CliStart /\ seen_log = <<>> /\ LibStart
NextLongPoll ==
    \/ ReceivePayjoin
    \/ SenderPosts
    \/ PollDirectory
\* the loop of long_poll_fallback goes on: it sleeps five seconds and polls
SpecLongPoll == InitLongPoll /\ [][NextLongPoll]_vars /\ WF_vars(PollDirectory)

\* the builder alone: proposals polled, added and built, build being called
\* more than once
NextBuilder ==
    \/ PollMulti
    \/ BuilderAdd
    \/ BuilderBuildAgain
SpecBuilder == Init /\ [][NextBuilder]_vars

\* a FinalizedProposal: proposals added, then combined
NextFinalized ==
    \/ FinalizedAdd
    \/ FinalizedCombine
SpecFinalized == Init /\ [][NextFinalized]_vars

\* a bip78 Psbt: made from an unchecked PSBT, then written through its
\* mutable accessors
NextPsbt ==
    \/ TryFromUnchecked
    \/ InputsMut
    \/ OutputsMut
    \/ XpubMut
    \/ ProprietaryMut
    \/ UnknownMut
SpecPsbt == Init /\ [][NextPsbt]_vars

\* the UTXO of a PSBT input, resolved and validated
NextUtxo ==
    \/ PreviousTxout
    \/ ValidateUtxo
SpecUtxo == Init /\ [][NextUtxo]_vars

\* an Enrolled session written to JSON and read back
NextSerde ==
    \/ SerDeRoundtrip
    \/ DeserializeMap
SpecSerde == Init /\ [][NextSerde]_vars

\* the requests a session sends to the directory
NextRequests ==
    \/ EnrollReq
    \/ PollReq
    \/ PostReq
SpecRequests == Init /\ [][NextRequests]_vars

\* the four HPKE functions
NextHpke ==
    \/ HpkeA
    \/ HpkeB
    \/ DecryptA
    \/ DecryptB
SpecHpke == Init /\ [][NextHpke]_vars

\* OHTTP keys written as bech32m text and read back
NextOhttpKeys ==
    \/ OhttpKeysRoundtrip
    \/ OhttpKeysFromStr
    \/ DecodeBech32Message
SpecOhttpKeys == Init /\ [][NextOhttpKeys]_vars

\* a proposal taken to ProvisionalProposal, its output address substituted
NextSubstitution ==
    \/ PollRes
    \/ CheckBroadcastSuitability
    \/ CheckInputsNotOwned
    \/ CheckNoMixedInputScripts
    \/ CheckNoInputsSeenBefore
    \/ IdentifyReceiverOutputs
    \/ SubstituteOutputAddressCall
SpecSubstitution == Init /\ [][NextSubstitution]_vars

\* the inputs of a PSBT validated together
NextInputUtxos ==
    \/ ValidateInputUtxos
SpecInputUtxos == Init /\ [][NextInputUtxos]_vars

\* one Enrolled session polled again and again
NextPolling ==
    \/ PollSession
SpecPolling == Init /\ [][NextPolling]_vars

\* a proposal finalized, its response uploaded more than once
NextUpload ==
    \/ PollRes
    \/ AssumeInteractiveReceiver
    \/ CheckInputsNotOwned
    \/ CheckNoMixedInputScripts
    \/ CheckNoInputsSeenBefore
    \/ IdentifyReceiverOutputs
    \/ FinalizeProposal
    \/ ExtractV2ReqAgain
SpecUpload == Init /\ [][NextUpload]_vars

\* proposals processed one after the other over one database of seen inputs
NextSeenInputs ==
    \/ ProcessProposal
    \/ UploadProposal
SpecSeenInputs == Init /\ [][NextSeenInputs]_vars

\* the acknowledgements of the directory
NextAcknowledged ==
    \/ EnrollRes
    \/ DeserializeRes
SpecAcknowledged == Init /\ [][NextAcknowledged]_vars

\* the classifier on every spent input drawn
NextInputType ==
    \/ FromSpentInput
    \/ ExpectedInputWeight
SpecInputType == Init /\ [][NextInputType]_vars

\* the keys of the persister
NextPersisterId ==
    \/ PersisterIdRoundtrip
    \/ PersisterIdPair
SpecPersisterId == Init /\ [][NextPersisterId]_vars

InitCli ==
    /\ NoStructs
    /\ seen_db = [mem |-> {}, disk |-> {}]
    /\ SessionStart /\ CliStart /\ seen_log = <<>> /\ LibStart
NextCli ==
    \/ ReceivePayjoin
    \/ ResumePayjoins
    \/ LongPollFallback
    \/ ProcessV2Proposal
    \/ Respond
    \/ Interrupt
    \/ Tick
SpecCli == InitCli /\ [][NextCli]_vars

\* ------------------------------------------------------------ history of a struct
RECURSIVE Path(_)
Path(i) ==
    IF insts[i].parent = None THEN <<insts[i].via>>
    ELSE Append(Path(insts[i].parent), insts[i].via)
RECURSIVE Ancestors(_)
Ancestors(i) ==
    IF insts[i].parent = None THEN <<>>
    ELSE Append(Ancestors(insts[i].parent), insts[i].parent)
RECURSIVE Root(_)
Root(i) == IF insts[i].parent = None THEN i ELSE Root(insts[i].parent)
Children(i) == {j \in DOMAIN insts : insts[j].parent = i /\ insts[j].clone_of = None}

BroadcastSteps == {"check_broadcast_suitability", "assume_interactive_receiver"}
ChecksInOrder ==
    <<"check_inputs_not_owned", "check_no_mixed_input_scripts",
      "check_no_inputs_seen_before", "identify_receiver_outputs", "finalize_proposal">>

\* ------------------------------------------------------------ C1
\* C1: a v2 PayjoinProposal has exactly this history: process_res, then the
\* broadcast step (check_broadcast_suitability or assume_interactive_receiver),
\* then check_inputs_not_owned, check_no_mixed_input_scripts,
\* check_no_inputs_seen_before, identify_receiver_outputs and finalize_proposal,
\* in this order, each of them having returned Ok on the struct before it.
C1_PipelineOrder ==
    \A i \in DOMAIN insts :
        insts[i].st = "PayjoinProposal" =>
            LET p == Path(i)
                a == Ancestors(i)
            IN  /\ Len(p) = 7
                /\ p[1] = "process_res"
                /\ p[2] \in BroadcastSteps
                /\ SubSeq(p, 3, 7) = ChecksInOrder
                /\ \A k \in DOMAIN a :
                     /\ insts[a[k]].res = "Ok"
                     /\ <<a[k], p[k + 1], "Ok">> \in innerLog

C1_Witness ==
    \E i \in DOMAIN insts :
        /\ insts[i].st = "PayjoinProposal"
        /\ Path(i)[2] = "check_broadcast_suitability"

\* ------------------------------------------------------------ C2
\* C2: a struct to which a transition has been applied (it has a successor, or
\* a check has run on it) is moved: it is not live, so no transition applies to
\* it again, and it has at most one successor.  A clone is another struct.
C2_StateLinearity ==
    \A i \in DOMAIN insts :
        /\ insts[i].live =>
             /\ Children(i) = {}
             /\ \A e \in innerLog : e[1] # i
             /\ insts[i].res = "none"
        /\ ~insts[i].live => insts[i].res # "none"
        /\ Cardinality(Children(i)) <= 1
        /\ Cardinality({e \in innerLog : e[1] = i}) <= 1

C2_Witness ==
    \E i, c \in DOMAIN insts :
        /\ insts[c].clone_of = i
        /\ ~insts[i].live /\ Children(i) # {}
        /\ ~insts[c].live /\ Children(c) # {}

\* ------------------------------------------------------------ C3
\* C3: when an inner check fails on a struct (of the v2 or of the multiparty
\* pipeline), the struct is moved, its result is that failure, and it has no
\* successor, hence no PayjoinProposal after it.
C3_FailureStops ==
    \A e \in innerLog :
        e[3] # "Ok" =>
            /\ ~insts[e[1]].live
            /\ insts[e[1]].res = e[3]
            /\ Children(e[1]) = {}
            /\ \A j \in DOMAIN insts :
                 insts[j].st \in {"PayjoinProposal", "multiparty::PayjoinProposal"}
                     => \A k \in DOMAIN Ancestors(j) : Ancestors(j)[k] # e[1]

C3_Witness ==
    \E e \in innerLog :
        /\ e[1][1] = 0
        /\ e[2] = "identify_receiver_outputs" /\ e[3] = "MissingPayment"
        /\ insts[e[1]].res = "MissingPayment"

\* ------------------------------------------------------------ C4
\* C4: the merged proposal behind a multiparty PayjoinProposal passes every
\* check of the single-sender pipeline: no owned input, no mixed input script
\* types, a receiver output.
C4_MergedPassesAllChecks ==
    \A i \in DOMAIN insts :
        insts[i].st = "multiparty::PayjoinProposal" =>
            LET merged == insts[Root(i)].psbt
            IN  /\ inner_check_inputs_not_owned(merged) = "Ok"
                /\ inner_check_no_mixed_input_scripts(merged) = "Ok"
                /\ inner_identify_receiver_outputs(merged) = "Ok"

\* ------------------------------------------------------------ C5
\* C5: the body of the request built by extract_v2_req is a message B sealed
\* for the key e that decrypt_message_a recovered from the polled request when
\* that request was not UTF-8, and the base64 text of the PSBT when it was.
IsSealed(body) == "ct" \in DOMAIN body
C5_ResponseMatchesRequest ==
    \A x \in sent :
        LET response == polls[x.inst[1]].response
            body == x.req.body.content
        IN  IF response.utf8
            THEN ~IsSealed(body) /\ body = Base64Text(insts[x.inst].psbt)
            ELSE /\ IsSealed(body)
                 /\ LET e == decrypt_message_a(response.msg, insts[x.inst].context.s).v.e
                    IN  /\ insts[x.inst].context.e = Some(e)
                        /\ body.ct.key = SharedSecret(e, SecretOf(body.e))
                        /\ body.ct.pt = pad(PsbtBytes(insts[x.inst].psbt)).v

C5_Witness ==
    \E x \in sent :
        /\ ~polls[x.inst[1]].response.utf8
        /\ polls[x.inst[1]].response.msg.e = PublicKey(3)
        /\ IsSealed(x.req.body.content)

\* ------------------------------------------------------------ C6
\* C6: a snapshot saved when the session knew the sender's key e (it had
\* received an encrypted request) has a field "e" holding that key.
C6_SnapshotCarriesE ==
    (IsSome(snapshot) /\ IsSome(Unwrap(snapshot).e)) =>
        \E k \in DOMAIN Unwrap(snapshot).json :
            /\ Unwrap(snapshot).json[k].k = "e"
            /\ Unwrap(snapshot).json[k].v.bytes = <<Unwrap(Unwrap(snapshot).e)>>

\* ------------------------------------------------------------ C7
\* C7: a session operation (extract_req, process_res, extract_v2_req, the
\* upload) done at or after the expiry of its session returns Expired.
C7_ExpiredSessionFails ==
    \A ev \in cli_log : ev.now >= enrolled[ev.s] => ev.ret = "Expired"

\* ------------------------------------------------------------ C8
\* C8: the snapshot of a session whose insert_recv_session returned Ok is on
\* disk for as long as its response upload has not been acknowledged.
C8_SnapshotUntilAcknowledged ==
    \A ins \in inserts :
        (ins.ok /\ ins.s \notin acked) => PublicKey(ins.s) \in DOMAIN recv_tree.disk

\* ------------------------------------------------------------ C9
\* C9: a `receive` run does a session operation only after its
\* insert_recv_session returned Ok with the snapshot inserted and flushed;
\* while such a run is going on its snapshot is on disk; a run whose insert
\* failed has sent no request.
C9_DurableBeforePolling ==
    /\ \A ev \in cli_log :
         ev.kind = "receive" =>
             \E ins \in inserts : ins.run = ev.run /\ ins.ok /\ ins.durable
    /\ run.kind = "receive" =>
         /\ \E ins \in inserts : ins.run = run.id /\ ins.ok /\ ins.durable
         /\ PublicKey(Unwrap(run.session).s) \in DOMAIN recv_tree.disk
         /\ recv_tree.disk[PublicKey(Unwrap(run.session).s)]
                = Enrolled_serialize(Unwrap(run.session))
    /\ \A ins \in inserts : ~ins.ok => \A ev \in cli_log : ev.run # ins.run

C9_Witness ==
    /\ \E ins \in inserts : ~ins.ok
    /\ \E ev \in cli_log : ev.kind = "receive" /\ ev.op = "extract_req"
    /\ run.kind = "receive" /\ run.pc = "long_poll" /\ run.polls > 0

\* ------------------------------------------------------------ C10
EarlierCalls(k) == {j \in 1..(k - 1) : seen_log[j].input = seen_log[k].input}
\* C10: among the calls that return a value (Ok), the first call for an
\* outpoint returns false and every call for that outpoint made after a call
\* that returned Ok returns true, whatever calls for other outpoints, failed
\* calls and reopenings of the database lie in between.
C10_SeenAfterInsert ==
    \A k \in DOMAIN seen_log :
        seen_log[k].ret.ok =>
            /\ EarlierCalls(k) = {} => seen_log[k].ret.v = FALSE
            /\ (\E j \in EarlierCalls(k) : seen_log[j].ret.ok) => seen_log[k].ret.v = TRUE

C10_Witness ==
    /\ Len(seen_log) = 3
    /\ seen_log[1].input = seen_log[3].input /\ seen_log[2].input # seen_log[1].input
    /\ \A k \in 1..3 : seen_log[k].ret.ok
    /\ seen_log[1].ret.v = FALSE /\ seen_log[3].ret.v = TRUE

\* ------------------------------------------------------------ C11
InputKeys(psbt) == {serialize(psbt.ins[k].op) : k \in DOMAIN psbt.ins}
SeenCheck(i, r) == <<i, "check_no_inputs_seen_before", r>> \in innerLog

\* Of two structs holding the same Original PSBT at most one passes
\* check_no_inputs_seen_before; the other one fails there with
\* InputSeenBefore and has no successor.
C11_OnePasses ==
    \A i, j \in DOMAIN insts :
        (i # j /\ i[1] # 0 /\ j[1] # 0 /\ insts[i].psbt = insts[j].psbt /\ SeenCheck(i, "Ok")) =>
            /\ ~SeenCheck(j, "Ok")
            /\ (\E r \in {"InputSeenBefore", "Server"} : SeenCheck(j, r)) =>
                 /\ SeenCheck(j, "InputSeenBefore")
                 /\ Children(j) = {}
                 /\ \A e \in innerLog :
                      e[2] = "identify_receiver_outputs" => e[1][1] # j[1] \/ e[1][2] # j[2]

\* A run of check_no_inputs_seen_before passes exactly when the store holds
\* none of the PSBT's inputs, and a run that passes leaves all of them in it.
C11_Step ==
    \A i \in DOMAIN insts :
        (insts[i].live /\ insts[i].st = "MaybeInputsSeen" /\ ~insts'[i].live) =>
            /\ (insts'[i].res = "Ok") <=> (InputKeys(insts[i].psbt) \cap seen_db.mem = {})
            /\ insts'[i].res # "Ok" =>
                 insts'[i].res = "InputSeenBefore" /\ NextId(i) \notin DOMAIN insts'
            /\ insts'[i].res = "Ok" => InputKeys(insts[i].psbt) \subseteq seen_db'.disk
            /\ seen_db.mem \subseteq seen_db'.mem

NotSeenBefore(o) ==
    {t \in Threads : calls[t].input = o /\ calls[t].inserted /\ ~IsSome(calls[t].old)}
\* the calls for an outpoint that returned Ok(false): their proposal passes
Passes(o) ==
    {t \in Threads : calls[t].input = o /\ calls[t].ret.ok /\ calls[t].ret.v = FALSE}

\* C12: of the concurrent calls of insert_input_seen_before for one outpoint,
\* in whatever order their sled calls interleave, at most one finds the
\* outpoint not seen before, so at most one returns false.
C12_AtMostOneNotSeen ==
    \A o \in Outpoints :
        /\ Cardinality(NotSeenBefore(o)) <= 1
        /\ Cardinality(Passes(o)) <= 1

\* two calls for one outpoint overlap: one has inserted and not yet flushed
\* while the other has run from insert to return
C12_Witness ==
    \E t, u \in Threads :
        /\ t # u /\ calls[t].input = calls[u].input
        /\ calls[t].pc = "flush" /\ ~IsSome(calls[t].old)
        /\ calls[u].pc = "done" /\ calls[u].ret.ok /\ calls[u].ret.v = TRUE

\* ------------------------------------------------------------ C13
\* C13: no step of a run removes or changes the persisted snapshot of a
\* session other than the run's own.
C13_SessionsIndependent ==
    [][\A k \in DOMAIN recv_tree.disk :
          (run.pc = "idle" \/ k # PublicKey(Unwrap(run.session).s)) =>
              /\ k \in DOMAIN recv_tree'.disk
              /\ recv_tree'.disk[k] = recv_tree.disk[k]]_vars

\* ------------------------------------------------------------ C14
\* C14: a turn of the long-poll loop (it logs a session operation) leaves the
\* run in the loop or hands it a proposal, whether or not the HTTP request
\* and process_res succeeded.
C14_TransportErrorRetries ==
    [][(run.pc = "long_poll" /\ cli_log' # cli_log) =>
           run'.pc \in {"long_poll", "process"}]_vars

\* ------------------------------------------------------------ C15
\* a turn of the loop: on an empty mailbox the run stays in the loop without a
\* proposal; on the first turn that finds the mailbox filled the loop ends,
\* with the proposal process_res made of what the mailbox holds (or with its
\* error); out of the loop nothing is polled.
C15_Turn ==
    LET s == Unwrap(run.session).s
        r == Enrolled_process_res(Unwrap(run.session), Mail(s))
    IN  /\ (run.pc = "long_poll" /\ run' # run /\ mailbox' = mailbox) =>
             /\ s \notin DOMAIN mailbox =>
                  run'.pc = "long_poll" /\ run'.proposal = None
             /\ s \in DOMAIN mailbox =>
                  /\ run'.pc # "long_poll"
                  /\ r.ok => run'.pc = "process" /\ run'.proposal = r.v
                  /\ ~r.ok => run' = Idle
        /\ run.pc = "process" => run' = run /\ cli_log' = cli_log

\* C15: an empty directory response gives no proposal and the loop polls
\* again; the loop returns the first proposal it receives and polls no
\* further; once the directory holds a proposal for the session and no
\* request fails, long_poll_fallback returns.
C15_LongPoll ==
    /\ [][C15_Turn]_vars
    /\ \A s \in 1..MaxSessions :
         (run.pc = "long_poll" /\ Unwrap(run.session).s = s /\ s \in DOMAIN mailbox)
             ~> (run.pc # "long_poll")

\* the loop polled an empty mailbox at least once and then returned the
\* proposal posted meanwhile
C15_Witness ==
    /\ run.pc = "process" /\ run.polls >= 2
    /\ IsSome(run.proposal)
    /\ \E ev \in cli_log : ev.run = run.id /\ ev.op = "process_res" /\ ev.ret = "Ok"

\* ------------------------------------------------------------ C16
Suitable(p) == p.params.v = 2 /\ p.params.optimistic_merge
AddResults == {"added", "ProposalVersionNotSupported", "OptimisticMergeNotSupported"}
\* the proposal as it was when it was given to add
Given(i) == [insts[i] EXCEPT !.live = TRUE, !.res = "none"]
Added == {i \in DOMAIN insts : insts[i].res = "added"}

\* C16: add accepts a proposal exactly when params.v = 2 and
\* params.optimistic_merge; a wrong version is reported as
\* ProposalVersionNotSupported whatever optimistic_merge is, a right version
\* without optimistic_merge as OptimisticMergeNotSupported; the builder holds
\* the accepted proposals and no other.
C16_AddAcceptsSuitable ==
    /\ \A i \in DOMAIN insts :
         insts[i].res \in AddResults =>
             /\ insts[i].res = "added" <=> Suitable(insts[i])
             /\ insts[i].res = "ProposalVersionNotSupported" <=> insts[i].params.v # 2
             /\ insts[i].res = "added" <=> \E k \in DOMAIN builder : builder[k] = Given(i)
    /\ \A k \in DOMAIN builder :
         /\ Suitable(builder[k])
         /\ \E i \in Added : builder[k] = Given(i)
    /\ Len(builder) = Cardinality(Added)

C16_Witness ==
    /\ Len(builder) = 1
    /\ \E i \in DOMAIN insts :
         /\ insts[i].res = "ProposalVersionNotSupported"
         /\ ~insts[i].params.optimistic_merge

\* ------------------------------------------------------------ C17
C17_Built ==
    \A k \in DOMAIN builds :
        /\ Len(builds[k].proposals) < 2 =>
             builds[k].ret = "NotEnoughProposals" /\ builds[k].inst = None
        /\ Len(builds[k].proposals) >= 2 =>
             builds[k].ret = "" /\ builds[k].inst = BuildId(k)
        /\ \A j \in 1..(k - 1) :
             builds[j].proposals = builds[k].proposals =>
                 /\ builds[j].ret = builds[k].ret
                 /\ builds[k].ret = "" =>
                      insts[builds[j].inst] = insts[builds[k].inst]

\* C17: build returns NotEnoughProposals when the builder holds fewer than
\* two proposals and a merged proposal when it holds two or more; it leaves
\* the builder as it was, and built again from the same proposals it returns
\* the same.
C17_Build == []C17_Built /\ [][builds' # builds => builder' = builder]_vars

\* a build that failed, a proposal added after it, and two builds that
\* succeeded on the same two proposals
C17_Witness ==
    /\ Len(builds) = 2
    /\ builds[1].ret = "" /\ builds[2].ret = ""
    /\ builds[1].proposals = builds[2].proposals

\* ------------------------------------------------------------ C18
\* the contexts of the proposals a build merged, in the order they were added
ContextsOf(b) == [k \in DOMAIN builds[b].proposals |-> builds[b].proposals[k].context]
Yielded(i) == {j \in DOMAIN insts : insts[j].via = "sender_iter" /\ insts[j].parent = i}

\* C18: every struct of the multiparty pipeline carries the params of the
\* first proposal that was merged and the sender contexts of the merged
\* proposals, one each, in the order they were added; sender_iter on the
\* final PayjoinProposal yields one v2 PayjoinProposal per sender context, in
\* that order, each with the Payjoin PSBT of the final proposal.
C18_SenderContextsCarried ==
    \A i \in DOMAIN insts :
        (i[1] = 0 /\ insts[i].via # "sender_iter") =>
            /\ insts[i].params = builds[i[2]].proposals[1].params
            /\ insts[i].sender_contexts = ContextsOf(i[2])
            /\ Yielded(i) # {} =>
                 /\ insts[i].st = "multiparty::PayjoinProposal"
                 /\ Yielded(i) = {IterId(i, k) : k \in DOMAIN ContextsOf(i[2])}
                 /\ \A k \in DOMAIN ContextsOf(i[2]) :
                      /\ insts[IterId(i, k)].st = "PayjoinProposal"
                      /\ insts[IterId(i, k)].context = ContextsOf(i[2])[k]
                      /\ insts[IterId(i, k)].psbt = insts[i].psbt

\* two senders with different contexts and different params, iterated
C18_Witness ==
    \E i \in DOMAIN insts :
        /\ i[1] = 0 /\ insts[i].st = "multiparty::PayjoinProposal"
        /\ Cardinality(Yielded(i)) = 2
        /\ insts[i].sender_contexts[1] # insts[i].sender_contexts[2]
        /\ builds[i[2]].proposals[1].params # builds[i[2]].proposals[2].params

\* ------------------------------------------------------------ C19
\* C19: combine fails with NotEnoughProposals when fewer than two proposals
\* were accepted by add; when it returns a PSBT, at least two were accepted,
\* the PSBT is their combination and each of its inputs has a final
\* script_sig or a final witness; when the proposals combine and the
\* transaction is extracted but an input has neither, it fails with
\* InputMissingWitnessOrScriptSig; every failure is one of the four errors of
\* combine.
C19_Combine ==
    fin.combined =>
        LET N == Len(fin.v2_proposals)
            Accepted == {k \in DOMAIN fin.adds : fin.adds[k] = ""}
            SameTx == \A k \in 1..N : fin.v2_proposals[k].psbt.tx = fin.v2_proposals[1].psbt.tx
            Finalized(k) == \E j \in 1..N : fin.v2_proposals[j].psbt.inputs[k].sig
                                           \/ fin.v2_proposals[j].psbt.inputs[k].wit
        IN  /\ N = Cardinality(Accepted)
            /\ N < 2 => ~fin.out.ok /\ fin.out.err = "NotEnoughProposals"
            /\ fin.out.ok =>
                 /\ N >= 2 /\ SameTx /\ fin.fee_sane
                 /\ fin.out.v.tx = fin.v2_proposals[1].psbt.tx
                 /\ \A k \in DOMAIN fin.out.v.inputs :
                      /\ fin.out.v.inputs[k].sig \/ fin.out.v.inputs[k].wit
                      /\ Finalized(k)
            /\ (N >= 2 /\ SameTx /\ fin.fee_sane
                    /\ \E k \in DOMAIN fin.v2_proposals[1].psbt.inputs : ~Finalized(k))
                 => ~fin.out.ok /\ fin.out.err = "InputMissingWitnessOrScriptSig"
            /\ ~fin.out.ok =>
                 fin.out.err \in {"NotEnoughProposals", "FailedToCombinePsbts",
                                  "BitcoinExtractTxError", "InputMissingWitnessOrScriptSig"}

\* a PSBT returned for two proposals each of which left an input unsigned
C19_Witness ==
    /\ fin.combined /\ fin.out.ok
    /\ \A j \in DOMAIN fin.v2_proposals :
         \E k \in DOMAIN fin.v2_proposals[j].psbt.inputs :
            /\ ~fin.v2_proposals[j].psbt.inputs[k].sig
            /\ ~fin.v2_proposals[j].psbt.inputs[k].wit

\* ------------------------------------------------------------ C20
CountsAgree(p) ==
    /\ Len(p.inputs) = Len(p.unsigned_tx.input)
    /\ Len(p.outputs) = Len(p.unsigned_tx.output)

\* C20: try_from makes a Psbt exactly when the unchecked PSBT has as many
\* inputs as its unsigned transaction and as many outputs, reports unequal
\* input counts before unequal output counts, and a Psbt has both counts
\* equal in every state, whatever was written through inputs_mut,
\* outputs_mut, xpub_mut, proprietary_mut and unknown_mut.
C20_CountsAgree ==
    /\ IsSome(wrapper.psbt) =>
         /\ CountsAgree(Unwrap(wrapper.psbt))
         /\ Unwrap(wrapper.psbt).unsigned_tx = wrapper.unchecked.unsigned_tx
    /\ wrapper.ret # "none" =>
         /\ IsSome(wrapper.psbt) <=> CountsAgree(wrapper.unchecked)
         /\ wrapper.ret = "Ok" <=> CountsAgree(wrapper.unchecked)
         /\ wrapper.ret = "UnequalInputCounts" <=>
                Len(wrapper.unchecked.inputs) # Len(wrapper.unchecked.unsigned_tx.input)
         /\ wrapper.ret \in {"Ok", "UnequalInputCounts", "UnequalOutputCounts"}
    /\ wrapper.ret = "none" => ~IsSome(wrapper.psbt) /\ wrapper.uses = {}

\* a Psbt with two inputs and an output, after every accessor was used
C20_Witness ==
    /\ IsSome(wrapper.psbt)
    /\ wrapper.uses = {"inputs_mut", "outputs_mut", "xpub_mut", "proprietary_mut",
                       "unknown_mut"}
    /\ Len(Unwrap(wrapper.psbt).inputs) = 2
    /\ Unwrap(wrapper.psbt).inputs # wrapper.unchecked.inputs
    /\ Unwrap(wrapper.psbt).unknown # {}

\* ------------------------------------------------------------ C21
\* C21: previous_txout returns MissingUtxoInformation when both fields are
\* absent; with a non_witness_utxo it returns UnequalTxid when that
\* transaction's txid is not the outpoint's and IndexOutOfBounds when vout is
\* not below its number of outputs; with both fields it returns
\* SegWitTxOutMismatch when they disagree, and otherwise the witness_utxo.
C21_PreviousTxout ==
    probe.fn = "previous_txout" =>
        LET pair == probe.input
            n == pair.psbtin.non_witness_utxo
            w == pair.psbtin.witness_utxo
            out == probe.out
            vout == pair.txin.previous_output.vout
        IN  /\ (~IsSome(n) /\ ~IsSome(w)) =>
                 ~out.ok /\ out.err = "MissingUtxoInformation"
            /\ (IsSome(n) /\ Unwrap(n).txid # pair.txin.previous_output.txid) =>
                 ~out.ok /\ out.err = "UnequalTxid"
            /\ (IsSome(n) /\ Unwrap(n).txid = pair.txin.previous_output.txid
                    /\ vout >= Len(Unwrap(n).output)) =>
                 ~out.ok /\ out.err = "IndexOutOfBounds"
            /\ (IsSome(n) /\ IsSome(w)
                    /\ Unwrap(n).txid = pair.txin.previous_output.txid
                    /\ vout < Len(Unwrap(n).output)
                    /\ Unwrap(n).output[vout + 1] # Unwrap(w)) =>
                 ~out.ok /\ out.err = "SegWitTxOutMismatch"
            /\ (~IsSome(n) /\ IsSome(w)) => out.ok /\ out.v = Unwrap(w)

\* ------------------------------------------------------------ C22
FIELDS == {"relay_url", "ohttp_config", "ohttp_proxy", "s"}
Occurrences(map, name) == {k \in DOMAIN map : map[k].k = name}

\* C22: deserializing the serialization of an Enrolled session gives that
\* session; deserializing a map in which one of the four fields is missing or
\* occurs twice, or which holds a field of another name, gives an error; a
\* map with each of the four fields once, in any order, gives the session.
C22_SerdeRoundtrip ==
    /\ probe.fn = "roundtrip" => probe.out.ok /\ probe.out.v = probe.input
    /\ probe.fn = "deserialize" =>
         LET map == probe.input.map
             Malformed == \/ \E name \in FIELDS : Cardinality(Occurrences(map, name)) # 1
                          \/ \E k \in DOMAIN map : map[k].k \notin FIELDS
         IN  /\ Malformed => ~probe.out.ok
             /\ ~Malformed => probe.out.ok /\ probe.out.v = probe.input.session

C22_Witness ==
    /\ probe.fn = "roundtrip"
    /\ probe.input.s = 256 /\ probe.input.relay_url # probe.input.ohttp_proxy
    /\ probe.out.ok /\ probe.out.v = probe.input

\* ------------------------------------------------------------ C23
\* the unpadded URL-safe base64 of the compressed public key of s
Identifier(s) ==
    [character_set |-> "UrlSafe", len |-> 44, bytes |-> [len |-> 33, point |-> PublicKey(s)]]

\* C23: Enroller::subdirectory, subdirectory(pubkey) and the end of
\* fallback_target are the unpadded URL-safe base64 of the compressed public
\* key of s; the enrollment body is that identifier, the poll target is
\* relay_url followed by it, the response target is relay_url, it, /payjoin.
C23_SubdirectoryDeterminism ==
    /\ probe.fn \in {"Enroller::extract_req", "Enrolled::extract_req", "extract_v2_req"} =>
         LET session == probe.input
             id == Identifier(session.s)
             relay == session.relay_url.serialization
         IN  /\ Enroller_subdirectory(session) = id
             /\ subdirectory(PublicKey(session.s)) = id
             /\ Enrolled_fallback_target(session)[2] = id
             /\ probe.fn = "Enroller::extract_req" =>
                  /\ probe.out.body.content = id
                  /\ probe.out.body.target = relay
             /\ probe.fn = "Enrolled::extract_req" =>
                  probe.out.body.target = <<relay, id>>
             /\ probe.fn = "extract_v2_req" =>
                  probe.out.ok /\ probe.out.v.body.target = <<relay, id, "/payjoin">>

C23_Witness ==
    /\ probe.fn = "extract_v2_req" /\ probe.out.ok
    /\ probe.input.s = 256
    /\ probe.out.v.body.target[2] = Enrolled_extract_req(probe.input).body.target[2]
    /\ probe.out.v.body.target[2] = Enroller_extract_req(probe.input).body.content

\* ------------------------------------------------------------ C24
Padded(raw_msg) == Bytes(PADDED_MESSAGE_BYTES, raw_msg.data)

\* C24: a message of at most 7168 bytes sealed with encrypt_message_a for S
\* and opened with s by decrypt_message_a comes back as the message padded
\* to 7168 bytes, with the public key of the sender's e; sealed with
\* encrypt_message_b for E and opened with e it comes back padded to 7168
\* bytes.
C24_HpkeRoundtrip ==
    (probe.fn \in {"message_a", "message_b"}
        /\ probe.input.raw_msg.len <= PADDED_MESSAGE_BYTES) =>
            /\ probe.out.enc.ok /\ probe.out.dec.ok
            /\ probe.fn = "message_a" =>
                 /\ probe.out.dec.v.buffer = Padded(probe.input.raw_msg)
                 /\ probe.out.dec.v.e = PublicKey(probe.input.sealed_by)
            /\ probe.fn = "message_b" =>
                 probe.out.dec.v = Padded(probe.input.raw_msg)

C24_Witness ==
    /\ probe.fn = "message_b" /\ probe.input.raw_msg = Bytes(1, 1)
    /\ probe.out.dec.ok /\ probe.out.dec.v.len = PADDED_MESSAGE_BYTES

\* ------------------------------------------------------------ C25
\* C25: encrypt_message_a and encrypt_message_b succeed on a plaintext of at
\* most 7168 bytes and seal exactly 7168 bytes; on a longer plaintext they
\* return PayloadTooLarge and no message.
C25_PadBoundary ==
    probe.fn \in {"message_a", "message_b"} =>
        IF probe.input.raw_msg.len <= PADDED_MESSAGE_BYTES
        THEN /\ probe.out.enc.ok
             /\ probe.out.enc.v.ct.pt.len = PADDED_MESSAGE_BYTES
             /\ probe.out.enc.v.len = HpkeHeaderBytes + PADDED_MESSAGE_BYTES + TagBytes
        ELSE /\ ~probe.out.enc.ok
             /\ probe.out.enc.err = "PayloadTooLarge"
             /\ probe.out.enc.v = <<>>

C25_Witness ==
    /\ probe.fn = "message_a"
    /\ probe.input.raw_msg.len = PADDED_MESSAGE_BYTES
    /\ probe.out.enc.ok

\* ------------------------------------------------------------ C26
\* C26: decrypt_message_a and decrypt_message_b return PayloadTooShort on
\* every input shorter than 45 bytes.
C26_ShortIsTooShort ==
    (probe.fn \in {"decrypt_message_a", "decrypt_message_b"}
        /\ probe.input.message.len < HpkeHeaderBytes) =>
            ~probe.out.ok /\ probe.out.err = "PayloadTooShort"

\* C26, amended: on every input shorter than 45 bytes decrypt_message_a and
\* decrypt_message_b fail; the error is PayloadTooShort when the input is
\* shorter than 33 bytes or its first 33 bytes are a public key, and the
\* secp256k1 error when it has 33 bytes or more that are not a public key.
C26_ShortInputFails ==
    (probe.fn \in {"decrypt_message_a", "decrypt_message_b"}
        /\ probe.input.message.len < HpkeHeaderBytes) =>
            /\ ~probe.out.ok
            /\ probe.out.err = (IF probe.input.message.len < PubkeyBytes
                                    \/ IsPublicKey(probe.input.message.e)
                                 THEN "PayloadTooShort" ELSE "Secp256k1")

C26_Witness ==
    /\ probe.fn = "decrypt_message_a"
    /\ probe.input.message.len = HpkeHeaderBytes - 1
    /\ ~probe.out.ok /\ probe.out.err = "Secp256k1"

\* ------------------------------------------------------------ C27
\* C27: the keys parsed from the bech32m text of a key config encode to the
\* bytes that key config encodes to; a bech32m string whose human-readable
\* part is not "oh" is refused with the mismatched-HRP error, and no string
\* with another human-readable part gives keys.
C27_OhttpKeysRoundtrip ==
    /\ probe.fn = "roundtrip" =>
         /\ probe.out.ok
         /\ KeyConfig_encode(probe.out.v) = KeyConfig_encode(probe.input)
    /\ (probe.fn = "from_str" /\ probe.input.hrp # "oh") =>
         /\ ~probe.out.ok
         /\ probe.input.checksum_ok => probe.out.err = "MismatchedHrp"

C27_Witness ==
    /\ probe.fn = "from_str"
    /\ probe.input.hrp = "pk" /\ probe.input.checksum_ok
    /\ probe.input.data \in {KeyConfig_encode(k) : k \in KeyConfigs}
    /\ probe.out.err = "MismatchedHrp"

\* ------------------------------------------------------------ C28
\* C28: to_bytes gives 33 bytes, the 32 bytes of the txid followed by
\* state_type; from_bytes of them gives the txid and the state_type back; two
\* ids that differ in txid or in state_type have different keys.
C28_PersisterKey ==
    /\ probe.fn = "to_bytes" =>
         /\ probe.out.bytes.ok
         /\ Len(probe.out.bytes.v) = 33
         /\ SubSeq(probe.out.bytes.v, 1, 32) = probe.input.txid
         /\ probe.out.bytes.v[33] = probe.input.state_type
         /\ probe.out.back.ok
         /\ probe.out.back.v.txid = probe.input.txid
         /\ probe.out.back.v.state_type = probe.input.state_type
    /\ probe.fn = "keys" =>
         /\ probe.out[1].ok /\ probe.out[2].ok
         /\ probe.input[1] # probe.input[2] => probe.out[1].v # probe.out[2].v

\* a send-side and a receive-side snapshot of one transaction
C28_Witness ==
    /\ probe.fn = "keys"
    /\ probe.input[1].txid = probe.input[2].txid
    /\ probe.input[1].state_type = 0 /\ probe.input[2].state_type = 1
    /\ probe.out[1].v # probe.out[2].v

\* ------------------------------------------------------------ C29, C30
\* the spent input and the answer of the last call of from_spent_input
Classified == probe.fn = "from_spent_input"
SpentScript == probe.input.txout.script_pubkey
SpentSig == probe.input.txin.final_script_sig
Finalized ==
    IsSome(probe.input.txin.final_script_sig) \/ IsSome(probe.input.txin.final_script_witness)
\* the shapes of a script, by its bytes
IsP2pk(b) == (Len(b) = 35 /\ b[1] = 33 /\ b[35] = 172) \/ (Len(b) = 67 /\ b[1] = 65 /\ b[67] = 172)
IsP2pkh(b) == Len(b) = 25 /\ SubSeq(b, 1, 3) = <<118, 169, 20>> /\ SubSeq(b, 24, 25) = <<136, 172>>
IsP2sh(b) == Len(b) = 23 /\ SubSeq(b, 1, 2) = <<169, 20>> /\ b[23] = 135
IsProgram(b) ==
    /\ Len(b) \in 4..42
    /\ b[1] \in {0} \cup (81..96)
    /\ b[2] = Len(b) - 2
IsV0Pubkey(b) == Len(b) = 22 /\ b[1] = 0 /\ b[2] = 20
IsV0Script(b) == Len(b) = 34 /\ b[1] = 0 /\ b[2] = 32
IsV1(b) == Len(b) = 34 /\ b[1] = 81 /\ b[2] = 32
KnownProgram(b) == IsV0Pubkey(b) \/ IsV0Script(b) \/ IsV1(b)
\* the redeem script of the call: what the last instruction of scriptSig pushes
SigInstructions == Script_instructions(Unwrap(SpentSig))
HasRedeem ==
    /\ IsSome(SpentSig)
    /\ SigInstructions # <<>>
    /\ SigInstructions[Len(SigInstructions)].t = "PushBytes"
Redeem == SigInstructions[Len(SigInstructions)].bytes

\* C29 as stated: every finalized input whose scriptPubKey is P2PK, P2PKH,
\* P2SH or a witness program is given a variant.
C29_Totality ==
    Classified /\ Finalized
        /\ (IsP2pk(SpentScript) \/ IsP2pkh(SpentScript) \/ IsP2sh(SpentScript)
              \/ IsProgram(SpentScript))
    => probe.out.ok

\* C29: from_spent_input gives a variant exactly when scriptPubKey is P2PK or
\* P2PKH, or a v0 program of 20 or 32 bytes or a v1 program of 32 bytes, or
\* P2SH with a scriptSig that ends in a push of a script that is no witness
\* program or one of these three; it gives NotFinalized for P2SH without such a
\* push and UnknownInputType in every other case.
C29_TotalityOnKnownPrograms ==
    Classified =>
        /\ probe.out.ok <=>
              \/ IsP2pk(SpentScript) \/ IsP2pkh(SpentScript)
              \/ IsProgram(SpentScript) /\ KnownProgram(SpentScript)
              \/ /\ IsP2sh(SpentScript) /\ HasRedeem
                 /\ IsProgram(Redeem) => KnownProgram(Redeem)
        /\ probe.out.ok =>
              probe.out.v.variant \in {"P2Pk", "P2Pkh", "P2Sh", "SegWitV0", "Taproot"}
        /\ ~probe.out.ok =>
              probe.out.err = IF IsP2sh(SpentScript) /\ ~HasRedeem
                              THEN "NotFinalized" ELSE "UnknownInputType"

\* a finalized input that spends a v1 program of 32 bytes
C29_Witness ==
    /\ Classified /\ Finalized
    /\ IsProgram(SpentScript) /\ KnownProgram(SpentScript)
    /\ probe.out.ok /\ probe.out.v.variant = "Taproot"

\* C30 as stated: the rules in order; a P2SH input whose redeem script is a
\* witness program is SegWitV0 with nested = true.
C30_RulesInOrder ==
    Classified =>
        IF IsP2pk(SpentScript) THEN probe.out = Ok(InputType_P2Pk)
        ELSE IF IsP2pkh(SpentScript) THEN probe.out = Ok(InputType_P2Pkh)
        ELSE IF IsP2sh(SpentScript)
        THEN IF ~IsSome(SpentSig) THEN probe.out = Err("NotFinalized")
             ELSE HasRedeem =>
                    IF IsProgram(Redeem)
                    THEN /\ probe.out.ok
                         /\ probe.out.v.variant = "SegWitV0"
                         /\ probe.out.v.nested
                    ELSE probe.out = Ok(InputType_P2Sh)
        ELSE IF IsV0Pubkey(SpentScript) THEN probe.out = Ok(InputType_SegWitV0("Pubkey", FALSE))
        ELSE IF IsV0Script(SpentScript) THEN probe.out = Ok(InputType_SegWitV0("Script", FALSE))
        ELSE IF IsV1(SpentScript) THEN probe.out = Ok(InputType_Taproot)
        ELSE probe.out = Err("UnknownInputType")

\* C30: the rules in order: P2PK gives P2Pk, P2PKH gives P2Pkh; P2SH gives
\* NotFinalized when final_script_sig is absent or does not end in a push,
\* P2Sh when the script of that push is no witness program, and otherwise what
\* the program gives with nested = true; a program gives SegWitV0 Pubkey for
\* v0 and 20 bytes, SegWitV0 Script for v0 and 32 bytes, Taproot for OP_1 and
\* 32 bytes, UnknownInputType otherwise; any other scriptPubKey gives
\* UnknownInputType.
C30_RulesWithPrograms ==
    LET OfProgram(b, nested) ==
            IF IsV0Pubkey(b) THEN Ok(InputType_SegWitV0("Pubkey", nested))
            ELSE IF IsV0Script(b) THEN Ok(InputType_SegWitV0("Script", nested))
            ELSE IF IsV1(b) THEN Ok(InputType_Taproot)
            ELSE Err("UnknownInputType")
    IN  Classified =>
            probe.out =
                IF IsP2pk(SpentScript) THEN Ok(InputType_P2Pk)
                ELSE IF IsP2pkh(SpentScript) THEN Ok(InputType_P2Pkh)
                ELSE IF IsP2sh(SpentScript)
                THEN IF ~HasRedeem THEN Err("NotFinalized")
                     ELSE IF IsProgram(Redeem) THEN OfProgram(Redeem, TRUE)
                     ELSE Ok(InputType_P2Sh)
                ELSE IF IsProgram(SpentScript) THEN OfProgram(SpentScript, FALSE)
                ELSE Err("UnknownInputType")

\* a P2SH input whose scriptSig pushes a signature and then a v0 program of
\* 20 bytes
C30_Witness ==
    /\ Classified
    /\ IsP2sh(SpentScript)
    /\ IsSome(SpentSig) /\ Len(Script_instructions(Unwrap(SpentSig))) = 2
    /\ probe.out = Ok(InputType_SegWitV0("Pubkey", TRUE))

\* ------------------------------------------------------------ C31
\* C31: expected_input_weight returns 148 for P2PKH, 68 for native SegWitV0
\* Pubkey, 91 for nested SegWitV0 Pubkey and 58 for Taproot, and for P2PK, P2SH
\* and SegWitV0 Script it returns an error and does not panic.
C31_WeightOrError ==
    probe.fn = "expected_input_weight" =>
        IF probe.input.variant = "P2Pkh"
        THEN probe.out.ok /\ probe.out.v.non_witness_data_size = 148
        ELSE IF probe.input.variant = "SegWitV0" /\ probe.input.ty = "Pubkey"
        THEN probe.out.ok
             /\ probe.out.v.non_witness_data_size = IF probe.input.nested THEN 91 ELSE 68
        ELSE IF probe.input.variant = "Taproot"
        THEN probe.out.ok /\ probe.out.v.non_witness_data_size = 58
        ELSE ~probe.out.ok /\ probe.out.err = "unsupported for weight estimation"

\* ------------------------------------------------------------ C32
\* C32: an acknowledgement of the directory whose status is not 2xx gives the
\* error UnexpectedStatusCode: Enroller::process_res gives an Enrolled session,
\* and the processing of the upload's answer succeeds, only on a 2xx status.
C32_StatusSurfaced ==
    probe.fn \in {"Enroller::process_res", "deserialize_res"} =>
        /\ probe.out.ok => probe.input.res.status \in 200..299
        /\ (probe.input.res.ohttp_ok /\ probe.input.res.bhttp_ok
              /\ probe.input.res.status \notin 200..299)
             => ~probe.out.ok /\ probe.out.err = "UnexpectedStatusCode"

\* ------------------------------------------------------------ C33
\* C33: substitute_output_address on a proposal whose sender set
\* disable_output_substitution fails with OutputSubstitutionDisabled and leaves
\* the outputs as they were.
C33_SubstitutionRefused ==
    (probe.fn = "substitute_output_address"
        /\ probe.input.params.disable_output_substitution)
    => /\ ~probe.out.ret.ok
       /\ probe.out.ret.err = "OutputSubstitutionDisabled"
       /\ probe.out.self.psbt.outs = probe.input.psbt.outs

\* ------------------------------------------------------------ C34
\* what validate_utxo is to answer for an input: "Ok" or the error
ExpectedOfInput(pair, treat_missing_as_error) ==
    LET n == pair.psbtin.non_witness_utxo
        w == pair.psbtin.witness_utxo
        out == pair.txin.previous_output
    IN  IF n = None /\ w = None
        THEN IF treat_missing_as_error THEN "MissingUtxoInformation" ELSE "Ok"
        ELSE IF n = None THEN "Ok"
        ELSE IF n[1].txid # out.txid THEN "UnequalTxid"
        ELSE IF out.vout >= Len(n[1].output) THEN "IndexOutOfBounds"
        ELSE IF w # None /\ w[1] # n[1].output[out.vout + 1] THEN "SegWitTxOutMismatch"
        ELSE "Ok"
FailingInputs ==
    {k \in DOMAIN probe.input.input_pairs :
        ExpectedOfInput(probe.input.input_pairs[k], probe.input.treat_missing_as_error) # "Ok"}

\* C34: validate_input_utxos returns Ok when no input fails and otherwise the
\* error of the failing input of lowest index, with that index; each input is
\* judged as the table of validate_utxo says.
C34_FirstFailure ==
    probe.fn = "validate_input_utxos" =>
        IF FailingInputs = {} THEN probe.out.ok
        ELSE /\ ~probe.out.ok
             /\ probe.out.index + 1 \in FailingInputs
             /\ \A k \in FailingInputs : probe.out.index + 1 <= k
             /\ probe.out.error =
                    ExpectedOfInput(probe.input.input_pairs[probe.out.index + 1],
                                    probe.input.treat_missing_as_error)

\* two inputs that fail for different reasons: the first one is reported
C34_Witness ==
    /\ probe.fn = "validate_input_utxos"
    /\ FailingInputs = {1, 2}
    /\ ExpectedOfInput(probe.input.input_pairs[1], probe.input.treat_missing_as_error)
         = "SegWitTxOutMismatch"
    /\ ExpectedOfInput(probe.input.input_pairs[2], probe.input.treat_missing_as_error)
         = "UnequalTxid"
    /\ probe.out.index = 0 /\ probe.out.error = "SegWitTxOutMismatch"

\* ------------------------------------------------------------ C35
\* what the k-th poll was given and what it made of it
PolledResponse(k) == polls[k].response
Proposal(k) == insts[polls[k].inst]
\* a binary response that is a message sealed for the session by the holder
\* of the key it names
OpensFor(m, session) ==
    /\ m.len >= HpkeHeaderBytes
    /\ IsPublicKey(m.e)
    /\ m.ct.key = SharedSecret(m.e, session.s)
    /\ m.ct.aad = m.e
SessionOf(context, session) ==
    /\ context.relay_url = session.relay_url
    /\ context.ohttp_config = session.ohttp_config
    /\ context.ohttp_proxy = session.ohttp_proxy
    /\ context.s = session.s
C35_Outcomes ==
    \A k \in DOMAIN polls :
        LET r == PolledResponse(k)
            none == polls[k].ret = "" /\ polls[k].inst = None
            failed == polls[k].ret # "" /\ polls[k].inst = None
            parsed(payload, e) ==
                IF ~payload.valid THEN failed
                ELSE /\ polls[k].ret = "" /\ polls[k].inst # None
                     /\ Proposal(k).st = "UncheckedProposal"
                     /\ Proposal(k).psbt = payload.psbt
                     /\ Proposal(k).params = payload.params
                     /\ Proposal(k).context.e = e
                     /\ SessionOf(Proposal(k).context, sess)
        IN  IF ~r.ohttp_ok THEN failed
            ELSE IF r.len = 0 THEN none
            ELSE IF r.utf8 THEN parsed(r.text, None)
            ELSE IF OpensFor(r.msg, sess) THEN parsed(r.msg.ct.pt.data, Some(r.msg.e))
            ELSE failed

\* C35: process_res gives Ok(None) for an empty body, a proposal with e = None
\* parsed from a UTF-8 body, a proposal with e = Some(sender key) parsed from
\* what decrypt_message_a opens of a body that is not UTF-8, and an error and
\* no proposal when decapsulation, decryption or parsing fails; the session is
\* the same after the call and is polled again.
C35_ProcessRes ==
    /\ []C35_Outcomes
    /\ [][polls' # polls => sess' = sess]_vars

\* a session polled twice: an encrypted request, then a request in clear
C35_Witness ==
    /\ Len(polls) = 2
    /\ ~PolledResponse(1).utf8 /\ polls[1].inst # None /\ IsSome(Proposal(1).context.e)
    /\ PolledResponse(2).utf8 /\ polls[2].inst # None /\ Proposal(2).context.e = None

\* ------------------------------------------------------------ C36
\* the context process_res attached to the proposal struct i descends from
PolledContext(i) ==
    LET response == polls[Root(i)[1]].response
    IN  [relay_url |-> sess.relay_url, ohttp_config |-> sess.ohttp_config,
         ohttp_proxy |-> sess.ohttp_proxy, s |-> sess.s,
         e |-> IF response.utf8 THEN None ELSE Some(response.msg.e)]

\* C36: the context (relay_url, ohttp_config, ohttp_proxy, s, e) of a v2
\* proposal is, in every state from UncheckedProposal to PayjoinProposal and
\* after every contribution and substitution, the one attached at poll time.
C36_ContextCarried ==
    \A i \in DOMAIN insts : insts[i].context = PolledContext(i)

\* a PayjoinProposal made from an encrypted request, after an input was
\* contributed and the output substituted
C36_Witness ==
    \E i \in DOMAIN insts :
        /\ insts[i].st = "PayjoinProposal"
        /\ insts[i].contributed > 0
        /\ insts[i].psbt.outs # insts[Root(i)].psbt.outs
        /\ insts[i].context.e = Some(PublicKey(3))

\* ------------------------------------------------------------ C37
\* every request made from one proposal goes to the proxy of its context and
\* names the resource relay_url, subdirectory of s, /payjoin
C37_SameSlot ==
    \A x \in sent :
        /\ x.req.url = insts[x.inst].context.ohttp_proxy
        /\ x.req.body.target = <<insts[x.inst].context.relay_url.serialization,
                                  Identifier(insts[x.inst].context.s), "/payjoin">>
        /\ \A y \in sent :
             x.inst = y.inst =>
                x.req.url = y.req.url /\ x.req.body.target = y.req.body.target

\* C37: extract_v2_req leaves the PayjoinProposal as it was, and every call
\* on one proposal targets the same resource {relay_url}{subdirectory}/payjoin
\* through the same OHTTP proxy URL.
C37_UploadRepeatable ==
    /\ []C37_SameSlot
    /\ [][sent' # sent => insts' = insts]_vars

\* two different requests made from one proposal
C37_Witness ==
    \E x \in sent : \E y \in sent :
        x.inst = y.inst /\ x.req.body.content # y.req.body.content

\* ------------------------------------------------------------ C38, C39
\* the outpoints of the proposal of the last call, as the database keys them
ProposalKeys == {serialize(probe.input.psbt.ins[k].op) : k \in DOMAIN probe.input.psbt.ins}
PassedThreeChecks ==
    /\ inner_check_broadcast_suitability(probe.input.psbt, probe.input.can_broadcast) = "Ok"
    /\ inner_check_inputs_not_owned(probe.input.psbt) = "Ok"
    /\ inner_check_no_mixed_input_scripts(probe.input.psbt) = "Ok"

\* C38: the seen-input set changes only for a proposal that passed the
\* broadcast check, the not-owned check and the mixed-input-scripts check, and
\* only by outpoints of that proposal; a proposal one of the three rejects
\* leaves the set as it was.
C38_RecordedAfterThreeChecks ==
    probe.fn = "process_v2_proposal" =>
        /\ probe.out.db # probe.input.db =>
              /\ PassedThreeChecks
              /\ probe.out.db.mem \ probe.input.db.mem \subseteq ProposalKeys
              /\ probe.out.db.disk \ probe.input.db.disk \subseteq ProposalKeys
        /\ ~PassedThreeChecks =>
              /\ probe.out.db = probe.input.db
              /\ probe.out.ret \in {"OriginalPsbtNotBroadcastable", "InputOwned",
                                     "MixedInputScripts"}

\* a proposal with inputs never seen that the mixed-input-scripts check rejects
C38_Witness ==
    /\ probe.fn = "process_v2_proposal"
    /\ probe.out.ret = "MixedInputScripts"
    /\ ProposalKeys \cap probe.input.db.mem = {}
    /\ probe.out.db = probe.input.db

C39_Kept ==
    /\ probe.fn = "process_v2_proposal" /\ PassedThreeChecks =>
         IF ProposalKeys \cap probe.input.db.mem # {}
         THEN probe.out.ret = "InputSeenBefore"
         ELSE /\ probe.out.ret \in {"Ok", "MissingPayment", "Server"}
              /\ ProposalKeys \subseteq probe.out.db.disk
              /\ ProposalKeys \subseteq seen_db.disk
    /\ probe.fn = "upload" => ProposalKeys \subseteq seen_db.disk

C40_MessageNamesExpectedThenFound ==
    (/\ probe.fn = "decode_bech32"
     /\ probe.input.encoded.checksum_ok
     /\ probe.input.encoded.hrp # probe.input.expected_hrp) =>
        /\ ~probe.out.ok
        /\ probe.out.message = <<"Expected HRP: ", probe.input.expected_hrp,
                                  ", got: ", probe.input.encoded.hrp>>

====
